---------------------------- MODULE Spec2Model ----------------------------
(***************************************************************************)
(* Model of the incremental ingestion loops of pr3c0g_synapse:             *)
(*   - the market candle ingestor (app/moex_market/monitor.py and          *)
(*     app/moex_market/database.py), specification Spec;                   *)
(*   - the news ingestor's store (app/news_feeder/database.py and          *)
(*     app/news_feeder/main.py), specification SpecNews.                   *)
(* Time is counted in ticks since local midnight; one tick stands for the  *)
(* smallest unit of datetime, and the window comparison of the code is the *)
(* same integer comparison at any resolution.                              *)
(***************************************************************************)
EXTENDS Integers, Sequences, FiniteSets, Bags, TLC

(***************************************************************************)
(* Bounds of the model.                                                    *)
(***************************************************************************)
\* longest source response (number of candles) drawn freely from Candles
MaxLen == 2
\* the cycle counter saturates here (the loop itself never stops)
MaxCycles == 2
\* the wall clock advances at most this many ticks past NowStart
MaxAdvance == 1

(***************************************************************************)
(* Program constants.                                                      *)
(***************************************************************************)
\* MarketMonitor.__init__(..., filter_hours: int = 1)
filter_hours == 1
\* timedelta(hours=...): ticks in one hour (a tick is shown as a minute)
HourTicks == 60

HM(h, m) == h * HourTicks + m
\* wall clock at process start: 10:00
NowStart == HM(10, 0)
NowMax == NowStart + MaxAdvance

Min(a, b) == IF a <= b THEN a ELSE b

(***************************************************************************)
(* Raw "begin" strings as the source returns them.  kind "iso" is a        *)
(* well-formed naive timestamp written with the separator sep (MOEX writes *)
(* a blank, ISO writes "T"), kind "bad" is text that does not parse, kind  *)
(* "empty" is the empty string / a missing key.                            *)
(***************************************************************************)
Iso(t, sep) == [kind |-> "iso", t |-> t, sep |-> sep]
BadBegin == [kind |-> "bad", t |-> 0, sep |-> ""]
EmptyBegin == [kind |-> "empty", t |-> 0, sep |-> ""]

\* "if not begin_str"
IsFalsy(begin_str) == begin_str.kind = "empty"

\* begin_str.replace(" ", "T")
ReplaceBlank(begin_str) ==
    IF begin_str.kind = "iso" /\ begin_str.sep = " "
    THEN [begin_str EXCEPT !.sep = "T"]
    ELSE begin_str

\* datetime.fromisoformat(s): raises ValueError unless s is well formed
fromisoformat(s) ==
    IF s.kind = "iso" /\ s.sep = "T"
    THEN [raised |-> FALSE, dt |-> s.t]
    ELSE [raised |-> TRUE, dt |-> 0]

\* a candle record of the source: its begin string and the state of its
\* end string ("ok" well formed, "bad" unparseable)
Candle(b, e) == [begin |-> b, end |-> e]

\* 09:00 is exactly filter_hours before NowStart, 08:59 one tick older,
\* 09:31 well inside the window
Times == {HM(9, 0) - 1, HM(9, 0), HM(9, 31)}

Candles ==
    {Candle(Iso(t, " "), "ok") : t \in Times}
    \cup {Candle(BadBegin, "ok"),
          Candle(EmptyBegin, "ok"),
          Candle(Iso(HM(9, 31), " "), "bad")}

\* the end-to-end scenario of the specification: 09:30, 09:31, 09:32
E2E_Source ==
    << Candle(Iso(HM(9, 30), " "), "ok"),
       Candle(Iso(HM(9, 31), " "), "ok"),
       Candle(Iso(HM(9, 32), " "), "ok") >>

BoundedSeq(S, n) == UNION {[1..k -> S] : k \in 0..n}

\* the candle lists the source may hold for the day
SourceLists == BoundedSeq(Candles, MaxLen) \cup {E2E_Source}

\* what a call of get_ticker_data does: return the list, or raise
SourceExceptions == {"none", "ConnectionError"}
Response(exc, candles) ==
    IF exc = "none"
    THEN [exc |-> "none", candles |-> candles]
    ELSE [exc |-> exc, candles |-> << >>]

(***************************************************************************)
(* Exceptions.  Every handler of the monitor is "except Exception".        *)
(***************************************************************************)
ExceptionSubclasses == {"ConnectionError", "ValueError", "StoreError"}

Catches_OnlyValueError(exc) == exc = "ValueError"

\* "except Exception as e"
Catches(exc) == exc \in ExceptionSubclasses


(***************************************************************************)
(* MarketMonitor.fetch_ticker_data, lines 41-58: the trailing window.      *)
(***************************************************************************)
time_threshold(t_now) == t_now - filter_hours * HourTicks

InWindow_Strict(begin_dt, t_now) == begin_dt > time_threshold(t_now)

InWindow_Minutes(begin_dt, t_now) == begin_dt >= t_now - filter_hours

\* "if begin_dt >= time_threshold"
InWindow(begin_dt, t_now) == begin_dt >= time_threshold(t_now)

\* the body of "for candle in data" for one candle: kept or not
KeepsCandle(candle, t_now) ==
    IF IsFalsy(candle.begin)
    THEN FALSE
    ELSE LET p == fromisoformat(ReplaceBlank(candle.begin))
         IN  IF p.raised THEN FALSE ELSE InWindow(p.dt, t_now)

RECURSIVE WindowLoop(_, _)
WindowLoop(data, t_now) ==
    IF data = << >>
    THEN << >>
    ELSE IF KeepsCandle(Head(data), t_now)
         THEN << Head(data) >> \o WindowLoop(Tail(data), t_now)
         ELSE WindowLoop(Tail(data), t_now)

fetch_ticker_data_Raises(resp, t_now) ==
    [exc |-> resp.exc, data |-> WindowLoop(resp.candles, t_now)]

\* fetch_ticker_data as a function of what the source did and of the clock:
\* exc is what leaves the method, data what it returns
fetch_ticker_data(resp, t_now) ==
    IF resp.exc # "none"
    THEN IF Catches(resp.exc)
         THEN [exc |-> "none", data |-> << >>]
         ELSE [exc |-> resp.exc, data |-> << >>]
    ELSE IF resp.candles = << >>
         THEN [exc |-> "none", data |-> << >>]
         ELSE [exc |-> "none", data |-> WindowLoop(resp.candles, t_now)]

(***************************************************************************)
(* MarketMonitor.filter_new_candles.  seen is cache[ticker] (a missing key *)
(* reads as the empty set, which the method creates first).                *)
(***************************************************************************)
RECURSIVE FilterLoop(_, _, _)
FilterLoop(seen, candles, new_candles) ==
    IF candles = << >>
    THEN [new_candles |-> new_candles, seen |-> seen]
    ELSE LET candle == Head(candles)
         IN  IF IsFalsy(candle.begin)
             THEN FilterLoop(seen, Tail(candles), new_candles)
             ELSE IF candle.begin \notin seen
                  THEN FilterLoop(seen \cup {candle.begin}, Tail(candles),
                                  Append(new_candles, candle))
                  ELSE FilterLoop(seen, Tail(candles), new_candles)

filter_new_candles_NoMark(seen, candles) ==
    [new_candles |-> FilterLoop(seen, candles, << >>).new_candles,
     seen |-> seen]

filter_new_candles_ByInstant(seen, candles) ==
    FilterLoop(seen \cup {[b EXCEPT !.sep = IF @ = " " THEN "T" ELSE " "] :
                             b \in {x \in seen : x.kind = "iso"}},
               candles, << >>)

filter_new_candles_Repeats(seen, candles) ==
    [new_candles |-> SelectSeq(candles, LAMBDA c : c.begin \notin seen),
     seen |-> seen \cup {candles[i].begin : i \in 1..Len(candles)}]

filter_new_candles(seen, candles) == FilterLoop(seen, candles, << >>)


(***************************************************************************)
(* ClickHouseDatabase.insert_ticker_candles_batch.  A stored row is        *)
(* (ticker, begin_dt); the other columns play no part in any check.        *)
(***************************************************************************)
Row(ticker, begin_dt) == [ticker |-> ticker, begin |-> begin_dt]

\* lines 124-151: the rows built from the batch, or the exception that
\* leaves the loop
RECURSIVE ValuesLoop(_, _, _)
ValuesLoop(ticker, candles, values_list) ==
    IF candles = << >>
    THEN [exc |-> "none", values_list |-> values_list]
    ELSE LET data == Head(candles)
             b == IF IsFalsy(data.begin)
                  THEN [raised |-> TRUE, dt |-> 0]
                  ELSE fromisoformat(ReplaceBlank(data.begin))
         IN  IF b.raised
             THEN ValuesLoop(ticker, Tail(candles), values_list)
             ELSE IF data.end = "bad"
                  THEN [exc |-> "ValueError", values_list |-> << >>]
                  ELSE ValuesLoop(ticker, Tail(candles),
                                  Append(values_list, Row(ticker, b.dt)))

\* the whole method; store_ok says whether client.execute succeeds.
\* exc leaves the method, rows are the rows the store has taken.
insert_ticker_candles_batch(ticker, candles, store_ok) ==
    IF candles = << >>
    THEN [exc |-> "none", rows |-> << >>]
    ELSE LET v == ValuesLoop(ticker, candles, << >>)
         IN  IF v.exc # "none"
             THEN [exc |-> v.exc, rows |-> << >>]
             ELSE IF v.values_list = << >>
                  THEN [exc |-> "none", rows |-> << >>]
                  ELSE IF store_ok
                       THEN [exc |-> "none", rows |-> v.values_list]
                       ELSE [exc |-> "StoreError", rows |-> << >>]

(***************************************************************************)
(* MarketMonitor.save_ticker_data, lines 102-107: the rollback.            *)
(***************************************************************************)
Begins(candles) == {candles[i].begin : i \in 1..Len(candles)}

Rollback_Clear(seen, new_data) == {}

Rollback_Keep(seen, new_data) == seen

Rollback(seen, new_data) == seen \ Begins(new_data)

SeqToBag(s) ==
    LET elems == {s[i] : i \in 1..Len(s)}
    IN  [e \in elems |-> Cardinality({i \in 1..Len(s) : s[i] = e})]

(***************************************************************************)
(* State of the market monitor process and of its store.                   *)
(***************************************************************************)
VARIABLES
    now,             \* wall clock, as last read by fetch_ticker_data
    source,          \* the candle list the exchange holds for the day
    cache,           \* MarketMonitor.cache: ticker -> set of begin strings
    index_cache,     \* MarketMonitor.index_cache
    ticker_candles,  \* table ticker_candles: a bag of rows
    index_values,    \* table index_values: a bag of systime values
    pc,              \* position of MarketMonitor.run
    ti,              \* position of "for ticker in tickers"
    cycles,          \* monitor cycles started so far (saturates at MaxCycles)
    fetch_exc,       \* what get_ticker_data did in this cycle's ticker step
    filtered,        \* "data": what fetch_ticker_data returned
    new_data,        \* what filter_new_candles returned
    outcome,         \* how this cycle's ticker step ended
    index_outcome,   \* how this cycle's index step ended
    snapshot,        \* "index_data": what fetch_index_data returned in
                     \* this cycle
    inserted,        \* history: bag of (ticker, begin string) of the
                     \* candles of every successful insert of this process
    first,           \* history: the first cycle of the process when its
                     \* insert succeeded, while the source has answered
                     \* with the same list ever since
    prev,            \* history: the batch whose insert failed in the
                     \* previous cycle, while the source has answered with
                     \* the same list since
    restart          \* history: how often the monitor process has been
                     \* started again, and table ticker_candles as the
                     \* last start found it

VARIABLES
    news,            \* table news: a bag of rows
    polling_state,   \* table polling_state: channel -> last_poll_time
                     \* (0: no row)
    utcnow,          \* wall clock of the news process
    npc,             \* position of the news process ("down": not running)
    ci,              \* position of "for channel_name in self.config.channels"
    msgs,            \* the messages of the page still to be processed
    runs,            \* process starts so far
    first_text,      \* history: per key, the text of the first save_news
                     \* call that succeeded since the tables were created
    last_save,       \* history: the last save_news call and its result
    chan_log,        \* history: per channel, what its poll of this pass did
    race,            \* per concurrent caller of save_news: its call
    before,          \* history: one row, chosen freely, among the rows an
                     \* earlier process run has saved
    cursor_was       \* history: table polling_state as the last process
                     \* run that ended has left it

VARIABLES
    tag_text,        \* extract_tags: its argument
    tags,            \* extract_tags: its result
    tpc              \* "ready" before the call, "done" after it

VARIABLES
    fcache,          \* filter_new_candles: self.cache, ticker -> set of
                     \* begin strings (a missing key is the empty set)
    fcall            \* filter_new_candles: the last call, its result and
                     \* self.cache as the call found it

tvars == << tag_text, tags, tpc >>

fvars == << fcache, fcall >>

VARIABLES
    rclock,          \* MarketMonitor.run: the wall clock, in ticks
    rrun             \* MarketMonitor.run: position of the loop, the sleep
                     \* it has asked for and the clock value that sleep
                     \* was computed from

VARIABLES
    ptable,          \* update_poll_state: table polling_state as a bag of
                     \* rows
    pcall            \* update_poll_state: the calls so far, the last one
                     \* and, per channel, the time of its last call

rvars == << rclock, rrun >>

VARIABLES
    twin             \* poll_channel: two stores polled side by side, with
                     \* what each poll requested and asked to save

VARIABLES
    purchases,       \* table purchases: a bag of rows
    sales,           \* table sales: a bag of rows
    fsm,             \* per user, the FSMContext: state and data
    last             \* history: what the last bot handler did

cvars == << ptable, pcall >>

bvars == << purchases, sales, fsm, last >>

VARIABLES
    candles_today,   \* per ticker, what the query of today's candles gives
    quotes,          \* per ticker, what get_current_quotes gives
    api              \* the last request to the price API and its response

VARIABLES
    users,           \* table users: a bag of rows
    signup           \* the registration state of each telegram id and the
                     \* process_phone_contact calls in flight

avars == << candles_today, quotes, api >>

VARIABLES
    selling          \* the process_sell_calendar calls in flight

VARIABLES
    chat,            \* the FSMContext of one chat: state and data
    update           \* history: the last update of the chat, the handler
                     \* that took it, what it wrote, and the values typed
                     \* in the present wizard run

uvars == << users, signup >>

wvars == << chat, update >>

xvars == << avars, uvars, selling, wvars >>

pvars == << fvars, rvars, cvars, twin, bvars, xvars >>

nvars == << news, polling_state, utcnow, npc, ci, msgs, runs, first_text,
            last_save, chan_log, race, before, cursor_was, tvars, pvars >>

mvars == << now, source, cache, index_cache, ticker_candles, index_values,
            pc, ti, cycles, fetch_exc, filtered, new_data, outcome,
            index_outcome, snapshot, inserted, first, prev, restart >>

\* MarketMonitor.get_tickers_list
get_tickers_list == << "SBER" >>
TickerSet == {get_tickers_list[i] : i \in 1..Len(get_tickers_list)}
ticker == get_tickers_list[ti]

Key(tk, begin_str) == [ticker |-> tk, begin |-> begin_str]

NoFirst == [set |-> FALSE, now |-> 0, rows |-> 0]
NoPrev == [failed |-> FALSE, new_data |-> << >>]

\* index snapshots of the source: the SYSTIME field ("" when it is absent)
Systimes == {"", "s1"}
IndexExceptions == {"none", "ConnectionError"}
\* no index snapshot fetched yet in this cycle
NoSnapshot == [fetched |-> FALSE, empty |-> TRUE, systime |-> ""]

\* process starts after the first that are followed
MaxRestarts == 1
NoRestart == [count |-> 0, stored |-> EmptyBag]

MonitorInit ==
    /\ now = NowStart
    /\ source \in SourceLists
    /\ snapshot = NoSnapshot
    /\ cache = [tk \in TickerSet |-> {}]
    /\ index_cache = {}
    /\ ticker_candles = EmptyBag
    /\ index_values = EmptyBag
    /\ pc = "idle"
    /\ ti = 1
    /\ cycles = 0
    /\ fetch_exc = "none"
    /\ filtered = << >>
    /\ new_data = << >>
    /\ outcome = "none"
    /\ index_outcome = "none"
    /\ inserted = EmptyBag
    /\ first = NoFirst
    /\ prev = NoPrev
    /\ restart = NoRestart

(***************************************************************************)
(* Where control goes when an exception leaves a ticker step or the index  *)
(* step: monitor_cycle's own handler (lines 149 and 157) lets the cycle go *)
(* on; past it, run's handler (line 176) sleeps 60 s and loops; past that  *)
(* the coroutine ends.                                                     *)
(***************************************************************************)
AfterTickerStep_Again == "polling"

AfterTickerStep_SkipIndex ==
    IF ti < Len(get_tickers_list) THEN "polling" ELSE "sleeping"

AfterTickerStep == IF ti < Len(get_tickers_list) THEN "polling" ELSE "index"

\* every one of these handlers is "except Exception": what the first does
\* not catch, the next does not catch either
AfterEscape(exc, goes_on) == IF Catches(exc) THEN goes_on ELSE "stopped"

(***************************************************************************)
(* The exchange changes the day's candle list between two cycles: a new    *)
(* candle is published at the end, or the oldest one is withdrawn.         *)
(***************************************************************************)
SourceUpdate ==
    /\ UNCHANGED nvars
    /\ UNCHANGED restart
    /\ UNCHANGED snapshot
    /\ pc = "idle"
    /\ \/ /\ Len(source) < MaxLen
          /\ \E c \in Candles : source' = Append(source, c)
       \/ /\ source # << >>
          /\ source' = Tail(source)
    /\ first' = NoFirst
    /\ prev' = NoPrev
    /\ UNCHANGED << now, cache, index_cache, ticker_candles, index_values,
                    pc, ti, cycles, fetch_exc, filtered, new_data, outcome,
                    index_outcome, inserted >>

(***************************************************************************)
(* MarketMonitor.run, line 167: a monitor cycle starts.                    *)
(***************************************************************************)
monitor_cycle ==
    /\ UNCHANGED nvars
    /\ UNCHANGED restart
    /\ UNCHANGED snapshot
    /\ pc = "idle"
    /\ pc' = "polling"
    /\ ti' = 1
    /\ cycles' = Min(cycles + 1, MaxCycles)
    /\ UNCHANGED << now, source, cache, index_cache, ticker_candles,
                    index_values, fetch_exc, filtered, new_data, outcome,
                    index_outcome, inserted, first, prev >>

(***************************************************************************)
(* monitor_cycle, line 139: await fetch_ticker_data(ticker).  The clock is *)
(* read once (line 41) and never runs backwards.                           *)
(***************************************************************************)
Poll ==
    /\ UNCHANGED nvars
    /\ UNCHANGED restart
    /\ UNCHANGED snapshot
    /\ pc = "polling"
    /\ \E exc \in SourceExceptions, t \in now..NowMax :
         LET r == fetch_ticker_data(Response(exc, source), t)
         IN  /\ now' = t
             /\ fetch_exc' = exc
             /\ filtered' = r.data
             /\ first' = IF exc = "none" THEN first ELSE NoFirst
             /\ prev' = IF exc = "none" THEN prev ELSE NoPrev
             /\ IF r.exc # "none"
                THEN /\ pc' = AfterEscape(r.exc, AfterTickerStep)
                     /\ outcome' = r.exc
                ELSE IF r.data # << >>
                     THEN /\ pc' = "filtering"
                          /\ outcome' = outcome
                     ELSE /\ pc' = AfterTickerStep
                          /\ outcome' = "nodata"
    /\ UNCHANGED << source, cache, index_cache, ticker_candles, index_values,
                    ti, cycles, new_data, index_outcome, inserted >>

(***************************************************************************)
(* monitor_cycle, lines 141-142: filter_new_candles, then the head of      *)
(* save_ticker_data (lines 88-97), which returns when nothing is new.      *)
(***************************************************************************)
Filter ==
    /\ UNCHANGED nvars
    /\ UNCHANGED restart
    /\ UNCHANGED snapshot
    /\ pc = "filtering"
    /\ LET f == filter_new_candles(cache[ticker], filtered)
       IN  /\ cache' = [cache EXCEPT ![ticker] = f.seen]
           /\ new_data' = f.new_candles
           /\ IF f.new_candles = << >>
              THEN /\ pc' = AfterTickerStep
                   /\ outcome' = "nonew"
              ELSE /\ pc' = "persisting"
                   /\ outcome' = outcome
    /\ UNCHANGED << now, source, index_cache, ticker_candles, index_values,
                    ti, cycles, fetch_exc, filtered, index_outcome, inserted,
                    first, prev >>

(***************************************************************************)
(* save_ticker_data, lines 99-107: await insert_ticker_candles_batch and   *)
(* the rollback of its handler.                                            *)
(***************************************************************************)
\* the candles of a batch that insert_ticker_candles_batch turns into rows
RowCandles(candles) ==
    SelectSeq(candles,
              LAMBDA c : ~IsFalsy(c.begin)
                         /\ ~fromisoformat(ReplaceBlank(c.begin)).raised)

KeysOf(tk, candles) ==
    SeqToBag([i \in 1..Len(candles) |-> Key(tk, candles[i].begin)])

Persist ==
    /\ UNCHANGED nvars
    /\ UNCHANGED restart
    /\ UNCHANGED snapshot
    /\ pc = "persisting"
    /\ \E store_ok \in BOOLEAN :
         LET r == insert_ticker_candles_batch(ticker, new_data, store_ok)
         IN  IF r.exc = "none"
             THEN /\ ticker_candles' = ticker_candles (+) SeqToBag(r.rows)
                  /\ inserted' = IF r.rows = << >>
                                 THEN inserted
                                 ELSE inserted
                                      (+) KeysOf(ticker, RowCandles(new_data))
                  /\ cache' = cache
                  /\ outcome' = "ok"
                  /\ pc' = AfterTickerStep
             ELSE /\ UNCHANGED << ticker_candles, inserted >>
                  /\ outcome' = r.exc
                  /\ IF Catches(r.exc)
                     THEN /\ cache' = [cache EXCEPT
                                         ![ticker] = Rollback(@, new_data)]
                          /\ pc' = AfterTickerStep
                     ELSE /\ cache' = cache
                          /\ pc' = AfterEscape(r.exc, AfterTickerStep)
    /\ UNCHANGED << now, source, index_cache, index_values, ti, cycles,
                    fetch_exc, filtered, new_data, index_outcome, first,
                    prev >>

(***************************************************************************)
(* monitor_cycle, lines 152-158: fetch_index_data and save_index_data.     *)
(***************************************************************************)
\* fetch_index_data: the SYSTIME of the snapshot, "" for an empty dict
fetch_index_data(exc, systime) ==
    IF exc # "none"
    THEN IF Catches(exc)
         THEN [exc |-> "none", empty |-> TRUE, systime |-> ""]
         ELSE [exc |-> exc, empty |-> TRUE, systime |-> ""]
    ELSE [exc |-> "none", empty |-> FALSE, systime |-> systime]

save_index_data_NoCacheCheck(seen, index_data, store_ok) ==
    IF index_data.empty \/ index_data.systime = ""
    THEN [exc |-> "none", seen |-> seen, rows |-> << >>,
          outcome |-> "skipped"]
    ELSE IF store_ok
         THEN [exc |-> "none", seen |-> seen \cup {index_data.systime},
               rows |-> << index_data.systime >>, outcome |-> "ok"]
         ELSE [exc |-> "none", seen |-> seen \ {index_data.systime},
               rows |-> << >>, outcome |-> "StoreError"]

save_index_data_MarkFirst(seen, index_data, store_ok) ==
    IF index_data.empty \/ index_data.systime = ""
       \/ index_data.systime \in seen
    THEN [exc |-> "none", seen |-> seen, rows |-> << >>,
          outcome |-> "skipped"]
    ELSE IF store_ok
         THEN [exc |-> "none", seen |-> seen \cup {index_data.systime},
               rows |-> << index_data.systime >>, outcome |-> "ok"]
         ELSE [exc |-> "none", seen |-> seen \cup {index_data.systime},
               rows |-> << >>, outcome |-> "StoreError"]

\* save_index_data: the new index_cache, the rows added, what escapes
save_index_data(seen, index_data, store_ok) ==
    IF index_data.empty \/ index_data.systime = ""
       \/ index_data.systime \in seen
    THEN [exc |-> "none", seen |-> seen, rows |-> << >>,
          outcome |-> "skipped"]
    ELSE IF store_ok
         THEN [exc |-> "none", seen |-> seen \cup {index_data.systime},
               rows |-> << index_data.systime >>, outcome |-> "ok"]
         ELSE IF Catches("StoreError")
              THEN [exc |-> "none", seen |-> seen \ {index_data.systime},
                    rows |-> << >>, outcome |-> "StoreError"]
              ELSE [exc |-> "StoreError", seen |-> seen, rows |-> << >>,
                    outcome |-> "StoreError"]

IndexStep ==
    /\ UNCHANGED nvars
    /\ UNCHANGED restart
    /\ pc = "index"
    /\ \E exc \in IndexExceptions, systime \in Systimes, store_ok \in BOOLEAN :
         LET d == fetch_index_data(exc, systime)
             r == IF d.exc = "none"
                  THEN save_index_data(index_cache, d, store_ok)
                  ELSE [exc |-> d.exc, seen |-> index_cache, rows |-> << >>,
                        outcome |-> d.exc]
         IN  /\ snapshot' = [fetched |-> d.exc = "none" /\ exc = "none",
                              empty |-> d.empty, systime |-> d.systime]
             /\ index_cache' = r.seen
             /\ index_outcome' = IF exc # "none" THEN exc ELSE r.outcome
             /\ index_values' = index_values (+) SeqToBag(r.rows)
             /\ pc' = IF r.exc = "none"
                      THEN "sleeping"
                      ELSE AfterEscape(r.exc, "sleeping")
    /\ UNCHANGED << now, source, cache, ticker_candles, ti, cycles, fetch_exc,
                    filtered, new_data, outcome, inserted, first, prev >>

(***************************************************************************)
(* MarketMonitor.run, lines 169-172: sleep until the next minute.          *)
(***************************************************************************)
Sleep ==
    /\ UNCHANGED nvars
    /\ UNCHANGED restart
    /\ pc = "sleeping"
    /\ pc' = "idle"
    /\ first' = IF cycles = 1 /\ fetch_exc = "none" /\ outcome = "ok"
                THEN [set |-> TRUE, now |-> now,
                      rows |-> BagCardinality(ticker_candles)]
                ELSE first
    /\ prev' = IF outcome \in {"StoreError", "ValueError"}
               THEN [failed |-> TRUE, new_data |-> new_data]
               ELSE NoPrev
    /\ fetch_exc' = "none"
    /\ filtered' = << >>
    /\ new_data' = << >>
    /\ outcome' = "none"
    /\ index_outcome' = "none"
    /\ snapshot' = NoSnapshot
    /\ UNCHANGED << now, source, cache, index_cache, ticker_candles,
                    index_values, ti, cycles, inserted >>

(***************************************************************************)
(* monitor.main, lines 193-198: the process is started again.  The tables  *)
(* are kept ("CREATE TABLE IF NOT EXISTS"); MarketMonitor.__init__ gives   *)
(* the new process empty seen-sets.  The old process is taken to end       *)
(* between two cycles: one that ends inside a cycle leaves the tables as   *)
(* some completed cycle leaves them.                                       *)
(***************************************************************************)
EmptyCache_Kept == cache

\* "self.cache: dict[str, set] = {}"
EmptyCache == [tk \in TickerSet |-> {}]

Restart ==
    /\ UNCHANGED nvars
    /\ pc = "idle"
    /\ restart.count < MaxRestarts
    /\ restart' = [count |-> restart.count + 1, stored |-> ticker_candles]
    /\ cache' = EmptyCache
    /\ index_cache' = {}
    /\ pc' = "idle"
    /\ ti' = 1
    /\ cycles' = 0
    /\ fetch_exc' = "none"
    /\ filtered' = << >>
    /\ new_data' = << >>
    /\ outcome' = "none"
    /\ index_outcome' = "none"
    /\ snapshot' = NoSnapshot
    /\ inserted' = EmptyBag
    /\ first' = NoFirst
    /\ prev' = NoPrev
    /\ UNCHANGED << now, source, ticker_candles, index_values >>

MonitorNext ==
    \/ SourceUpdate
    \/ monitor_cycle
    \/ Poll
    \/ Filter
    \/ Persist
    \/ IndexStep
    \/ Sleep

(***************************************************************************)
(* The news ingestor: app/news_feeder/main.py and database.py.             *)
(***************************************************************************)
\* longest page of messages a poll returns (the code asks for limit=5)
MaxMsgs == 2
\* process starts of the news ingestor (it is run once per start)
MaxRuns == 2

\* config.channels
channels == << "chA", "chB" >>
ChannelSet == {channels[i] : i \in 1..Len(channels)}
MsgIds == {1, 2}
\* message texts; "" is a message without text
Texts == {"", "a", "b"}
Message(id, text) == [id |-> id, text |-> text]
\* message 1 is seen with two texts (an edited message) and without text
Messages == {Message(1, "a"), Message(1, "b"), Message(1, ""),
             Message(2, "a")}
\* wall-clock readings of the news process
MaxNewsClock == 2

NewsRow(msg_id, channel, text) ==
    [msg_id |-> msg_id, channel |-> channel, text |-> text]
NewsKey(msg_id, channel) == [msg_id |-> msg_id, channel |-> channel]
NewsKeys == [msg_id : MsgIds, channel : ChannelSet]
KeyOfRow(r) == NewsKey(r.msg_id, r.channel)

\* what the store does to one save_news call: work, fail in the SELECT of
\* message_exists, or fail in the commit for another reason than uniqueness
DbOutcomes == {"ok", "fail_select", "fail_commit"}

NoSave ==
    [called |-> FALSE, key |-> NewsKey(1, "chA"), text |-> "",
     existed |-> FALSE, succeeded_before |-> FALSE, db |-> "ok",
     result |-> "none", added |-> 0]

NoRow == NewsRow(0, "", "")

\* what one poll_channel call has done so far: whether get_messages
\* returned, the rows its save_news calls added, the time it wrote to the
\* cursor (0: none), how it ended, and for a rate limit the seconds of the
\* signal and the seconds slept
NoLog ==
    [fetched |-> FALSE, added |-> 0, cursor_at |-> 0, ended |-> "none",
     flood_s |-> 0, slept |-> 0]

\* concurrent callers of save_news on one store (two sessions, or two
\* ingestor processes), and the calls each may make
Callers == {1, 2}
MaxCalls == 2
NoCall ==
    [pc |-> "idle", key |-> NewsKey(1, "chA"), text |-> "", passed |-> FALSE,
     result |-> "none", calls |-> 0]

NewsInit ==
    /\ news = EmptyBag
    /\ polling_state = [c \in ChannelSet |-> 0]
    /\ utcnow = 1
    /\ npc = "down"
    /\ ci = 1
    /\ msgs = << >>
    /\ runs = 0
    /\ first_text = [k \in NewsKeys |-> "none"]
    /\ last_save = NoSave
    /\ chan_log = [c \in ChannelSet |-> NoLog]
    /\ race = [p \in Callers |-> NoCall]
    /\ before = NoRow
    /\ cursor_was = [c \in ChannelSet |-> 0]

\* Database.message_exists
message_exists(rows, msg_id, channel) ==
    \E r \in BagToSet(rows) : r.msg_id = msg_id /\ r.channel = channel

ViolatesUnique_Never(rows, msg_id, channel) == FALSE

\* UniqueConstraint("msg_id", "channel") of News: the commit of a second row
\* with the key raises IntegrityError
ViolatesUnique(rows, msg_id, channel) ==
    \E r \in BagToSet(rows) : r.msg_id = msg_id /\ r.channel = channel

save_news_Overwrite(rows, msg_id, channel, text, db) ==
    IF message_exists(rows, msg_id, channel)
    THEN [result |-> "False",
          rows |-> SetToBag({IF KeyOfRow(r) = NewsKey(msg_id, channel)
                             THEN NewsRow(msg_id, channel, text)
                             ELSE r : r \in BagToSet(rows)})]
    ELSE [result |-> "True",
          rows |-> rows (+) SetToBag({NewsRow(msg_id, channel, text)})]

\* Database.save_news, lines 63-67: the existence check.  "raised": the
\* SELECT failed; "False": the row exists and the call returns False;
\* "go": the call goes on to the insert
save_news_check(rows, msg_id, channel, db) ==
    IF db = "fail_select"
    THEN "raised"
    ELSE IF message_exists(rows, msg_id, channel) THEN "False" ELSE "go"

\* Database.save_news, lines 72-88: add and commit.  IntegrityError is
\* caught and gives False; any other error of the commit leaves the method
save_news_commit(rows, msg_id, channel, text, db) ==
    IF db = "fail_commit"
    THEN [result |-> "raised", rows |-> rows]
    ELSE IF ViolatesUnique(rows, msg_id, channel)
         THEN [result |-> "False", rows |-> rows]
         ELSE [result |-> "True",
               rows |-> rows (+) SetToBag({NewsRow(msg_id, channel, text)})]

\* Database.save_news as one call that nothing interleaves with: what it
\* returns ("raised" when an exception leaves it) and the table afterwards
save_news(rows, msg_id, channel, text, db) ==
    LET c == save_news_check(rows, msg_id, channel, db)
    IN  IF c = "go"
        THEN save_news_commit(rows, msg_id, channel, text, db)
        ELSE [result |-> c, rows |-> rows]

\* Database.create_tables: drop_all, then create_all
create_tables(rows, drop_existing) ==
    IF drop_existing THEN EmptyBag ELSE rows

\* the same for table polling_state
create_tables_polling(state, drop_existing) ==
    IF drop_existing THEN [c \in ChannelSet |-> 0] ELSE state

(***************************************************************************)
(* main(): connect, create_tables(drop_existing=True), NewsFeeder.run.     *)
(***************************************************************************)
NewsMain ==
    /\ UNCHANGED mvars
    /\ UNCHANGED tvars
    /\ UNCHANGED pvars
    /\ UNCHANGED race
    /\ npc = "down"
    /\ runs < MaxRuns
    /\ runs' = runs + 1
    /\ news' = create_tables(news, TRUE)
    /\ polling_state' = create_tables_polling(polling_state, TRUE)
    /\ first_text' = [k \in NewsKeys |-> "none"]
    /\ last_save' = NoSave
    /\ chan_log' = [c \in ChannelSet |-> NoLog]
    /\ npc' = "channel"
    /\ ci' = 1
    /\ UNCHANGED << utcnow, msgs, before, cursor_was >>

AfterChannel == IF ci < Len(channels) THEN "channel" ELSE "closing"

(***************************************************************************)
(* poll_channel's handlers.  Lines 30-35: a handle that is not found       *)
(* (ValueError) or is private ends the call.  Line 78: FloodWaitError      *)
(* sleeps e.seconds.  Line 83: "except Exception".  An exception that      *)
(* leaves poll_channel leaves poll_all_channels; run re-raises it and the  *)
(* process ends.                                                           *)
(***************************************************************************)
NewsExceptions == {"ValueError", "ChannelPrivateError", "FloodWaitError",
                   "Exception", "OperationalError"}
FloodSeconds == {1, 2}

PollCatches_OnlyFlood(exc) == exc = "FloodWaitError"

\* "except FloodWaitError" and "except Exception" of poll_channel
PollCatches(exc) == exc \in NewsExceptions

sleep_seconds_None(seconds) == 0

\* "await asyncio.sleep(e.seconds)"
sleep_seconds(seconds) == seconds

Log(field, value) ==
    [chan_log EXCEPT ![channels[ci]] = [@ EXCEPT ![field] = value]]

\* the call of poll_channel is over: the loop of poll_all_channels goes on
GoOn ==
    /\ npc' = AfterChannel
    /\ ci' = IF ci < Len(channels) THEN ci + 1 ELSE ci

\* exception exc reaches the outer handlers of poll_channel (lines 78-84);
\* how is what the log records for it
Escapes(exc, how) ==
    /\ msgs' = << >>
    /\ IF exc = "FloodWaitError" /\ PollCatches(exc)
       THEN /\ \E s \in FloodSeconds :
                 chan_log' = [chan_log EXCEPT ![channels[ci]] =
                                [@ EXCEPT !.ended = "flood", !.flood_s = s]]
            /\ npc' = "flood_wait"
            /\ ci' = ci
       ELSE /\ chan_log' = Log("ended", how)
            /\ IF PollCatches(exc)
               THEN GoOn
               ELSE /\ npc' = "down"
                    /\ ci' = 1

(***************************************************************************)
(* poll_channel, lines 27-35: get_entity.                                  *)
(***************************************************************************)
EntityOutcomes == {"ok", "ValueError", "ChannelPrivateError",
                   "FloodWaitError", "Exception"}

GetEntity ==
    /\ UNCHANGED mvars
    /\ UNCHANGED tvars
    /\ UNCHANGED pvars
    /\ UNCHANGED race
    /\ npc = "channel"
    /\ \E res \in EntityOutcomes :
         IF res = "ok"
         THEN /\ npc' = "resolved"
              /\ UNCHANGED << ci, msgs, chan_log >>
         ELSE IF res \in {"ValueError", "ChannelPrivateError"}
              THEN /\ chan_log' = Log("ended", "unresolved")
                   /\ msgs' = << >>
                   /\ GoOn
              ELSE Escapes(res, "fetch_error")
    /\ last_save' = NoSave
    /\ UNCHANGED << news, polling_state, utcnow, runs, first_text, before,
                    cursor_was >>

(***************************************************************************)
(* poll_channel, line 37: get_messages(channel, limit=5).                  *)
(***************************************************************************)
FetchOutcomes == {"ok", "FloodWaitError", "Exception"}

GetMessages ==
    /\ UNCHANGED mvars
    /\ UNCHANGED tvars
    /\ UNCHANGED pvars
    /\ UNCHANGED race
    /\ npc = "resolved"
    /\ \E res \in FetchOutcomes :
         IF res = "ok"
         THEN /\ \E m \in BoundedSeq(Messages, MaxMsgs) : msgs' = m
              /\ chan_log' = Log("fetched", TRUE)
              /\ npc' = "saving"
              /\ ci' = ci
         ELSE Escapes(res, "fetch_error")
    /\ UNCHANGED << news, polling_state, utcnow, runs, first_text, last_save,
                    before, cursor_was >>

(***************************************************************************)
(* poll_channel, lines 78-82: the rate limit is slept out.                 *)
(***************************************************************************)
FloodSleep ==
    /\ UNCHANGED mvars
    /\ UNCHANGED tvars
    /\ UNCHANGED pvars
    /\ UNCHANGED race
    /\ npc = "flood_wait"
    /\ chan_log' = Log("slept", sleep_seconds(chan_log[channels[ci]].flood_s))
    /\ GoOn
    /\ UNCHANGED << news, polling_state, utcnow, msgs, runs, first_text,
                    last_save, before, cursor_was >>

(***************************************************************************)
(* poll_channel, lines 45-66: one turn of "for msg in messages".           *)
(***************************************************************************)
SaveNext ==
    /\ UNCHANGED mvars
    /\ UNCHANGED tvars
    /\ UNCHANGED pvars
    /\ UNCHANGED race
    /\ npc = "saving"
    /\ msgs # << >>
    /\ LET msg == Head(msgs)
           ch == channels[ci]
       IN  IF msg.text = ""
           THEN /\ msgs' = Tail(msgs)
                /\ UNCHANGED << news, npc, ci, first_text, last_save,
                                chan_log >>
           ELSE \E db \in DbOutcomes :
                  LET r == save_news(news, msg.id, ch, msg.text, db)
                      k == NewsKey(msg.id, ch)
                      n == BagCardinality(r.rows) - BagCardinality(news)
                  IN  /\ news' = r.rows
                      /\ last_save' =
                           [called |-> TRUE, key |-> k, text |-> msg.text,
                            existed |-> message_exists(news, msg.id, ch),
                            succeeded_before |-> first_text[k] # "none",
                            db |-> db, result |-> r.result, added |-> n]
                      /\ first_text' =
                           IF r.result = "True" /\ first_text[k] = "none"
                           THEN [first_text EXCEPT ![k] = msg.text]
                           ELSE first_text
                      /\ IF r.result = "raised"
                         THEN Escapes("OperationalError", "save_error")
                         ELSE /\ msgs' = Tail(msgs)
                              /\ chan_log' = Log("added", chan_log[ch].added + n)
                              /\ UNCHANGED << npc, ci >>
    /\ UNCHANGED << polling_state, utcnow, runs, before, cursor_was >>

(***************************************************************************)
(* poll_channel, lines 68-71: the page is done, update_poll_state.         *)
(***************************************************************************)
\* Database.update_poll_state: one row per channel, overwritten
update_poll_state(state, channel, last_poll_time) ==
    [state EXCEPT ![channel] = last_poll_time]

ChannelDone ==
    /\ UNCHANGED mvars
    /\ UNCHANGED tvars
    /\ UNCHANGED pvars
    /\ UNCHANGED race
    /\ npc = "saving"
    /\ msgs = << >>
    /\ \E t \in utcnow..MaxNewsClock, db_ok \in BOOLEAN :
         /\ utcnow' = t
         /\ IF db_ok
            THEN /\ polling_state' =
                      update_poll_state(polling_state, channels[ci], t)
                 /\ chan_log' = [chan_log EXCEPT ![channels[ci]] =
                                   [@ EXCEPT !.ended = "done", !.cursor_at = t]]
                 /\ GoOn
                 /\ msgs' = msgs
            ELSE /\ polling_state' = polling_state
                 /\ Escapes("OperationalError", "cursor_error")
    /\ last_save' = NoSave
    /\ UNCHANGED << news, runs, first_text, before, cursor_was >>

(***************************************************************************)
(* NewsFeeder.run, lines 100-103: the pass is over, the process ends.      *)
(***************************************************************************)
NewsExit ==
    /\ UNCHANGED mvars
    /\ UNCHANGED tvars
    /\ UNCHANGED pvars
    /\ UNCHANGED race
    /\ npc = "closing"
    /\ npc' = "down"
    /\ before' \in {NoRow} \cup BagToSet(news)
    /\ cursor_was' = polling_state
    /\ ci' = 1
    /\ UNCHANGED << news, polling_state, utcnow, msgs, runs, first_text,
                    last_save, chan_log >>

(***************************************************************************)
(* Database.save_news called concurrently: each await of the method is a   *)
(* point where the other caller may run.  The store answers every          *)
(* statement (the race is about the uniqueness violation alone).           *)
(***************************************************************************)
\* a caller enters save_news(msg_id, channel, ..., text)
RaceCall(p) ==
    /\ UNCHANGED mvars
    /\ UNCHANGED tvars
    /\ UNCHANGED pvars
    /\ race[p].pc = "idle"
    /\ race[p].calls < MaxCalls
    /\ \E k \in NewsKeys, t \in Texts \ {""} :
         race' = [race EXCEPT ![p] =
                    [pc |-> "checking", key |-> k, text |-> t,
                     passed |-> FALSE, result |-> "none",
                     calls |-> race[p].calls + 1]]
    /\ UNCHANGED << news, polling_state, utcnow, npc, ci, msgs, runs,
                    first_text, last_save, chan_log, before, cursor_was >>

\* lines 63-67: "if await self.message_exists(msg_id, channel)"
RaceCheck(p) ==
    /\ UNCHANGED mvars
    /\ UNCHANGED tvars
    /\ UNCHANGED pvars
    /\ race[p].pc = "checking"
    /\ LET c == save_news_check(news, race[p].key.msg_id,
                                race[p].key.channel, "ok")
       IN  race' = [race EXCEPT ![p] =
                      IF c = "go"
                      THEN [@ EXCEPT !.pc = "committing", !.passed = TRUE]
                      ELSE [@ EXCEPT !.pc = "returned", !.result = c]]
    /\ UNCHANGED << news, polling_state, utcnow, npc, ci, msgs, runs,
                    first_text, last_save, chan_log, before, cursor_was >>

\* lines 72-88: session.add, commit, except IntegrityError
RaceCommit(p) ==
    /\ UNCHANGED mvars
    /\ UNCHANGED tvars
    /\ UNCHANGED pvars
    /\ race[p].pc = "committing"
    /\ LET r == save_news_commit(news, race[p].key.msg_id,
                                 race[p].key.channel, race[p].text, "ok")
       IN  /\ news' = r.rows
           /\ race' = [race EXCEPT ![p] =
                         [@ EXCEPT !.pc = "returned", !.result = r.result]]
    /\ UNCHANGED << polling_state, utcnow, npc, ci, msgs, runs, first_text,
                    last_save, chan_log, before, cursor_was >>

\* the caller has its result and is free for its next call
RaceReturn(p) ==
    /\ UNCHANGED mvars
    /\ UNCHANGED tvars
    /\ UNCHANGED pvars
    /\ race[p].pc = "returned"
    /\ race' = [race EXCEPT ![p] = [NoCall EXCEPT !.calls = race[p].calls]]
    /\ UNCHANGED << news, polling_state, utcnow, npc, ci, msgs, runs,
                    first_text, last_save, chan_log, before, cursor_was >>

RaceNext ==
    \/ \E p \in Callers : RaceCall(p)
    \/ \E p \in Callers : RaceCheck(p)
    \/ \E p \in Callers : RaceCommit(p)
    \/ \E p \in Callers : RaceReturn(p)

(***************************************************************************)
(* parser.extract_tags.  A text is a sequence of characters; " " stands    *)
(* for every character that is neither "#" nor a word character.           *)
(***************************************************************************)
MaxText == 4
Chars == {"#", "a", "A", "b", " "}
\* \w
WordChars == {"a", "A", "b"}
TagTexts == BoundedSeq(Chars, MaxText)

TagsInit ==
    /\ tag_text = << >>
    /\ tags = {}
    /\ tpc = "ready"

lower_Keep(word) == word

\* str.lower
lower(word) == [i \in 1..Len(word) |-> IF word[i] = "A" THEN "a" ELSE word[i]]

\* the greedy \w+ at position i: the number of word characters from i on
RECURSIVE WordRun(_, _)
WordRun(t, i) ==
    IF i > Len(t) \/ t[i] \notin WordChars THEN 0 ELSE 1 + WordRun(t, i + 1)

\* re.findall(r"#(\w+)", text) from position i on: the captured groups of
\* the matches, left to right, none overlapping
RECURSIVE findall(_, _)
findall(t, i) ==
    IF i > Len(t)
    THEN << >>
    ELSE IF t[i] = "#" /\ WordRun(t, i + 1) > 0
         THEN << SubSeq(t, i + 1, i + WordRun(t, i + 1)) >>
              \o findall(t, i + 1 + WordRun(t, i + 1))
         ELSE findall(t, i + 1)

\* extract_tags: list(set(tag.lower() for tag in tags)), as a set
extract_tags(t) ==
    IF t = << >>
    THEN {}
    ELSE LET found == findall(t, 1)
         IN  {lower(found[i]) : i \in 1..Len(found)}

ExtractTags ==
    /\ UNCHANGED mvars
    /\ UNCHANGED pvars
    /\ tpc = "ready"
    /\ tags' = extract_tags(tag_text)
    /\ tpc' = "done"
    /\ tag_text' = tag_text
    /\ UNCHANGED << news, polling_state, utcnow, npc, ci, msgs, runs,
                    first_text, last_save, chan_log, race, before, cursor_was >>

TagsNext == ExtractTags

(***************************************************************************)
(* MarketMonitor.filter_new_candles called for any ticker with any list.   *)
(* The same instant can be spelled "2024-01-01 09:00:00" and               *)
(* "2024-01-01T09:00:00": two strings.                                     *)
(***************************************************************************)
\* longest list handed to one call
MaxBatch == 2
\* calls that are followed
MaxFilterCalls == 2

FilterTickers == {"SBER", "GAZP"}
FilterBegins == {Iso(HM(9, 0), " "), Iso(HM(9, 0), "T"), Iso(HM(9, 31), " "),
                 EmptyBegin}
FilterBatches ==
    BoundedSeq({Candle(b, "ok") : b \in FilterBegins}, MaxBatch)

NoFilterCall ==
    [n |-> 0, ticker |-> "", candles |-> << >>, new_candles |-> << >>,
     before |-> [tk \in FilterTickers |-> {}]]

FilterInit ==
    /\ fcache = [tk \in FilterTickers |-> {}]
    /\ fcall = NoFilterCall

FilterCall ==
    /\ UNCHANGED mvars
    /\ fcall.n < MaxFilterCalls
    /\ \E tk \in FilterTickers, candles \in FilterBatches :
         LET f == filter_new_candles(fcache[tk], candles)
         IN  /\ fcache' = [fcache EXCEPT ![tk] = f.seen]
             /\ fcall' = [n |-> fcall.n + 1, ticker |-> tk,
                          candles |-> candles,
                          new_candles |-> f.new_candles,
                          before |-> fcache]
    /\ UNCHANGED << news, polling_state, utcnow, npc, ci, msgs, runs,
                    first_text, last_save, chan_log, race, before,
                    cursor_was, tvars >>
    /\ UNCHANGED rvars
    /\ UNCHANGED cvars
    /\ UNCHANGED twin
    /\ UNCHANGED bvars
    /\ UNCHANGED xvars

FilterNext == FilterCall

(***************************************************************************)
(* MarketMonitor.run, lines 165-178: the loop around monitor_cycle.  The   *)
(* clock counts ticks of 1/TicksPerSecond s, so that "now" has a fraction  *)
(* of a second.  asyncio.sleep(n) is taken to last n seconds.              *)
(***************************************************************************)
TicksPerSecond == 2
\* "60 - datetime.now().second"
SecondsPerMinute == 60
\* "await asyncio.sleep(60)"
BackoffSeconds == 60
\* longest monitor_cycle, in ticks
MaxCycleTicks == 3
\* minutes of wall clock that are followed
MaxRunMinutes == 3

TicksPerMinute == SecondsPerMinute * TicksPerSecond
\* datetime.second
SecondOf(clock) == (clock \div TicksPerSecond) % SecondsPerMinute
MinuteOf(clock) == clock \div TicksPerMinute

wait_seconds_From59(second) == 59 - second

\* line 169
wait_seconds(second) == 60 - second

\* how "await self.monitor_cycle()" ends: it returns, or an exception
\* leaves it
CycleOutcomes == {"ok", "Exception", "KeyboardInterrupt"}

NoRun == [pc |-> "cycle", wait |-> 0, read_at |-> 0, cycles |-> 0]

RunInit ==
    /\ rclock = 0
    /\ rrun = NoRun

\* lines 167-172 and the handlers' choice, lines 173-178
RunCycle ==
    /\ UNCHANGED mvars
    /\ UNCHANGED fvars
    /\ UNCHANGED cvars
    /\ UNCHANGED twin
    /\ UNCHANGED bvars
    /\ UNCHANGED xvars
    /\ rrun.pc = "cycle"
    /\ \E d \in 0..MaxCycleTicks, how \in CycleOutcomes :
         /\ rclock + d < MaxRunMinutes * TicksPerMinute
         /\ rclock' = rclock + d
         /\ rrun' =
              IF how = "KeyboardInterrupt"
              THEN [rrun EXCEPT !.pc = "stopped",
                                !.cycles = rrun.cycles + 1]
              ELSE IF how = "Exception"
                   THEN [pc |-> "backoff", wait |-> BackoffSeconds,
                         read_at |-> rclock + d,
                         cycles |-> rrun.cycles + 1]
                   ELSE LET w == wait_seconds(SecondOf(rclock + d))
                        IN  [pc |-> IF w > 0 THEN "sleeping" ELSE "cycle",
                             wait |-> w, read_at |-> rclock + d,
                             cycles |-> rrun.cycles + 1]
    /\ UNCHANGED << news, polling_state, utcnow, npc, ci, msgs, runs,
                    first_text, last_save, chan_log, race, before,
                    cursor_was, tvars >>

\* "await asyncio.sleep(wait_seconds)" and "await asyncio.sleep(60)"
RunSleep ==
    /\ UNCHANGED mvars
    /\ UNCHANGED fvars
    /\ UNCHANGED cvars
    /\ UNCHANGED twin
    /\ UNCHANGED bvars
    /\ UNCHANGED xvars
    /\ rrun.pc \in {"sleeping", "backoff"}
    /\ rclock' = rclock + rrun.wait * TicksPerSecond
    /\ rrun' = [rrun EXCEPT !.pc = "cycle"]
    /\ UNCHANGED << news, polling_state, utcnow, npc, ci, msgs, runs,
                    first_text, last_save, chan_log, race, before,
                    cursor_was, tvars >>

RunNext == RunCycle \/ RunSleep

(***************************************************************************)
(* Database.update_poll_state on table polling_state, whose primary key is *)
(* channel.  A datetime is its wall time and its tzinfo.                   *)
(***************************************************************************)
\* calls that are followed
MaxCursorCalls == 3
\* latest time handed to a call
MaxCursorClock == 3

Datetime(t, tzinfo) == [t |-> t, tzinfo |-> tzinfo]
CursorTimes ==
    {Datetime(t, tz) : t \in 1..MaxCursorClock, tz \in {"none", "utc"}}
PollingState(channel, last_poll_time) ==
    [channel |-> channel, last_poll_time |-> last_poll_time]

\* lines 101-102
with_utc(last_poll_time) ==
    IF last_poll_time.tzinfo = "none"
    THEN [last_poll_time EXCEPT !.tzinfo = "utc"]
    ELSE last_poll_time

update_poll_state_rows_Add(rows, channel, last_poll_time) ==
    rows (+) SetToBag({PollingState(channel, with_utc(last_poll_time))})

\* lines 104-115: select the row of the channel; set its time, or add a
\* row; commit
update_poll_state_rows(rows, channel, last_poll_time) ==
    LET found == {r \in BagToSet(rows) : r.channel = channel}
    IN  IF found # {}
        THEN LET result == CHOOSE r \in found : TRUE
             IN  (rows (-) SetToBag({result}))
                 (+) SetToBag({PollingState(channel,
                                            with_utc(last_poll_time))})
        ELSE rows (+) SetToBag({PollingState(channel,
                                             with_utc(last_poll_time))})

NoCursorCall ==
    [n |-> 0, channel |-> "", last_poll_time |-> Datetime(0, "utc"),
     last |-> [c \in ChannelSet |-> Datetime(0, "utc")]]

CursorInit ==
    /\ ptable = EmptyBag
    /\ pcall = NoCursorCall

UpdatePollState ==
    /\ UNCHANGED mvars
    /\ UNCHANGED fvars
    /\ UNCHANGED rvars
    /\ UNCHANGED twin
    /\ UNCHANGED bvars
    /\ UNCHANGED xvars
    /\ pcall.n < MaxCursorCalls
    /\ \E c \in ChannelSet, t \in CursorTimes :
         /\ ptable' = update_poll_state_rows(ptable, c, t)
         /\ pcall' = [n |-> pcall.n + 1, channel |-> c,
                      last_poll_time |-> t,
                      last |-> [pcall.last EXCEPT ![c] = t]]
    /\ UNCHANGED << news, polling_state, utcnow, npc, ci, msgs, runs,
                    first_text, last_save, chan_log, race, before,
                    cursor_was, tvars >>

CursorNext == UpdatePollState

(***************************************************************************)
(* NewsFeeder.poll_channel as a function of the store it finds, for a      *)
(* channel that resolves and a store that works: lines 37-71.  Two stores  *)
(* are polled side by side, once, with the same channel, page and clock.   *)
(***************************************************************************)
\* "get_messages(channel, limit=5)"
FetchLimit == 5

Store(rows, state) == [news |-> rows, polling_state |-> state]

\* lines 45-66: "for msg in messages", with the save_news calls made
RECURSIVE SaveLoop(_, _, _, _)
SaveLoop(rows, channel_name, messages, calls) ==
    IF messages = << >>
    THEN [rows |-> rows, calls |-> calls]
    ELSE LET msg == Head(messages)
         IN  IF msg.text = ""
             THEN SaveLoop(rows, channel_name, Tail(messages), calls)
             ELSE SaveLoop(save_news(rows, msg.id, channel_name, msg.text,
                                     "ok").rows,
                           channel_name, Tail(messages),
                           Append(calls,
                                  NewsRow(msg.id, channel_name, msg.text)))

poll_channel_SinceCursor(store, channel_name, messages, current_time) ==
    LET l == SaveLoop(store.news, channel_name,
                      IF store.polling_state[channel_name] > 0
                      THEN << >>
                      ELSE messages, << >>)
    IN  [store |-> Store(l.rows,
                         update_poll_state(store.polling_state, channel_name,
                                           current_time)),
         request |-> [channel |-> channel_name, limit |-> FetchLimit],
         calls |-> l.calls]

\* the store the poll leaves, the request it made, the save_news calls
poll_channel(store, channel_name, messages, current_time) ==
    LET l == SaveLoop(store.news, channel_name, messages, << >>)
    IN  [store |-> Store(l.rows,
                         update_poll_state(store.polling_state, channel_name,
                                           current_time)),
         request |-> [channel |-> channel_name, limit |-> FetchLimit],
         calls |-> l.calls]

Twins == {1, 2}
CursorStates == [ChannelSet -> 0..MaxNewsClock]
NoRequest == [channel |-> "", limit |-> 0]
NoTwin(rows, state) ==
    [store |-> Store(rows, state), start |-> state, request |-> NoRequest,
     calls |-> << >>, polls |-> 0]

\* stores that differ in table polling_state only
TwinStart ==
    \E rows \in {EmptyBag, SetToBag({NewsRow(1, "chA", "a")})},
       s1, s2 \in CursorStates :
         twin = [i \in Twins |-> NoTwin(rows, IF i = 1 THEN s1 ELSE s2)]

TwinInit ==
    twin = [i \in Twins |-> NoTwin(EmptyBag, [c \in ChannelSet |-> 0])]

TwinPoll ==
    /\ UNCHANGED mvars
    /\ UNCHANGED fvars
    /\ UNCHANGED rvars
    /\ UNCHANGED cvars
    /\ UNCHANGED bvars
    /\ UNCHANGED xvars
    /\ twin[1].polls = 0
    /\ \E c \in ChannelSet, m \in BoundedSeq(Messages, MaxMsgs),
          t \in 1..MaxNewsClock :
         twin' = [i \in Twins |->
                    LET p == poll_channel(twin[i].store, c, m, t)
                    IN  [store |-> p.store, start |-> twin[i].start,
                         request |-> p.request, calls |-> p.calls,
                         polls |-> twin[i].polls + 1]]
    /\ UNCHANGED << news, polling_state, utcnow, npc, ci, msgs, runs,
                    first_text, last_save, chan_log, race, before,
                    cursor_was, tvars >>

TwinNext == TwinPoll

(***************************************************************************)
(* The portfolio bot: app/telegram_bot/database.py and handlers.py.  A     *)
(* ledger row is (user_id, ticker, quantity); id, price, date and          *)
(* created_at play no part in any check.  Every user is registered.        *)
(***************************************************************************)
\* most rows of table purchases, and of table sales
MaxRows == 2
\* largest quantity typed
MaxQuantity == 2

BotUsers == {1, 2}
BotTickers == {"SBER", "GAZP"}
\* what a user types for a ticker
TickerTexts == {"sber", "SBER", "GAZP"}
\* what a user types for a quantity; 0 is refused
QuantityTexts == 0..MaxQuantity

\* str.upper
upper(s) == IF s = "sber" THEN "SBER" ELSE s

LedgerRow(user_id, symbol, quantity) ==
    [user_id |-> user_id, ticker |-> symbol, quantity |-> quantity]
LedgerRows == [user_id : BotUsers, ticker : BotTickers,
               quantity : 1..MaxQuantity]

add_purchase_Upsert(rows, user_id, symbol, quantity) ==
    LET same == {r \in BagToSet(rows) :
                   r.user_id = user_id /\ r.ticker = upper(symbol)}
    IN  IF same = {}
        THEN rows (+) SetToBag({LedgerRow(user_id, upper(symbol), quantity)})
        ELSE LET old == CHOOSE r \in same : TRUE
             IN  (rows (-) SetToBag({old}))
                 (+) SetToBag({LedgerRow(user_id, upper(symbol),
                                         old.quantity + quantity)})

\* PortfolioDatabase.add_purchase and add_sale: one row is added
add_purchase(rows, user_id, symbol, quantity) ==
    rows (+) SetToBag({LedgerRow(user_id, upper(symbol), quantity)})

add_sale(rows, user_id, symbol, quantity) ==
    rows (+) SetToBag({LedgerRow(user_id, upper(symbol), quantity)})

\* get_user_purchases and get_user_sales: the rows of the user
get_user_rows(rows, user_id) ==
    [r \in {x \in BagToSet(rows) : x.user_id = user_id} |->
       CopiesIn(r, rows)]

\* sum(r.quantity for r in rows if keep(r))
RECURSIVE SumOver(_, _)
SumOver(S, rows) ==
    IF S = {}
    THEN 0
    ELSE LET r == CHOOSE x \in S : TRUE
         IN  r.quantity * CopiesIn(r, rows) + SumOver(S \ {r}, rows)

get_available_quantity_Anyone(bought, sold, user_id, symbol) ==
    SumOver({r \in BagToSet(bought) : upper(r.ticker) = upper(symbol)},
            bought)
    - SumOver({r \in BagToSet(sold) : upper(r.ticker) = upper(symbol)}, sold)

\* PortfolioDatabase.get_available_quantity
get_available_quantity(bought, sold, user_id, symbol) ==
    LET p == get_user_rows(bought, user_id)
        q == get_user_rows(sold, user_id)
    IN  SumOver({r \in BagToSet(p) : upper(r.ticker) = upper(symbol)}, p)
        - SumOver({r \in BagToSet(q) : upper(r.ticker) = upper(symbol)}, q)

get_user_portfolio_Bought(bought, sold, user_id) ==
    LET p == get_user_rows(bought, user_id)
    IN  {[ticker |-> tk,
          total_quantity |-> SumOver({r \in BagToSet(p) : r.ticker = tk}, p)]
         : tk \in {r.ticker : r \in BagToSet(p)}}

\* PortfolioDatabase.get_user_portfolio: the tickers listed, each with its
\* total_quantity
get_user_portfolio(bought, sold, user_id) ==
    LET p == get_user_rows(bought, user_id)
        q == get_user_rows(sold, user_id)
        keys == {r.ticker : r \in BagToSet(p) \cup BagToSet(q)}
        total_quantity(tk) ==
            SumOver({r \in BagToSet(p) : r.ticker = tk}, p)
            - SumOver({r \in BagToSet(q) : r.ticker = tk}, q)
    IN  {[ticker |-> tk, total_quantity |-> total_quantity(tk)]
         : tk \in {k \in keys : ~(total_quantity(k) <= 0)}}

\* FSMContext of a user after state.clear()
NoFsm == [state |-> "none", ticker |-> "", quantity |-> 0]
NoOp == [op |-> "none", user |-> 0, ticker |-> "", quantity |-> 0,
         available |-> 0, portfolio |-> {}]
Op(op, u, tk, q, a) ==
    [op |-> op, user |-> u, ticker |-> tk, quantity |-> q, available |-> a,
     portfolio |-> {}]

BotInit ==
    /\ purchases = EmptyBag
    /\ sales = EmptyBag
    /\ fsm = [u \in BotUsers |-> NoFsm]
    /\ last = NoOp

\* what every bot handler leaves alone
BotFrame ==
    /\ UNCHANGED mvars
    /\ UNCHANGED << news, polling_state, utcnow, npc, ci, msgs, runs,
                    first_text, last_save, chan_log, race, before,
                    cursor_was, tvars >>
    /\ UNCHANGED << fvars, rvars, cvars, twin >>
    /\ UNCHANGED xvars

AddStates == {"add.waiting_ticker", "add.waiting_price",
              "add.waiting_quantity", "add.waiting_date"}
SellStates == {"sell.waiting_ticker", "sell.waiting_price",
               "sell.waiting_quantity", "sell.waiting_date"}

\* handlers.show_portfolio ("Portfolio", registered before every state
\* handler)
show_portfolio(u) ==
    /\ BotFrame
    /\ fsm' = [fsm EXCEPT ![u] = NoFsm]
    /\ last' = [Op("get_user_portfolio", u, "", 0, 0) EXCEPT
                  !.portfolio = get_user_portfolio(purchases, sales, u)]
    /\ UNCHANGED << purchases, sales >>

\* handlers.cancel_action ("Cancel"); back_to_main_menu and cmd_start clear
\* the state in the same way
cancel_action(u) ==
    /\ BotFrame
    /\ fsm[u] # NoFsm
    /\ fsm' = [fsm EXCEPT ![u] = NoFsm]
    /\ last' = NoOp
    /\ UNCHANGED << purchases, sales >>

\* handlers.start_add_position ("Add Securities", registered before every
\* state handler): set_state only, the data stay
start_add_position(u) ==
    /\ BotFrame
    /\ fsm[u].state # "add.waiting_ticker"
    /\ fsm' = [fsm EXCEPT ![u].state = "add.waiting_ticker"]
    /\ last' = NoOp
    /\ UNCHANGED << purchases, sales >>

\* handlers.process_ticker
process_ticker(u) ==
    /\ BotFrame
    /\ fsm[u].state = "add.waiting_ticker"
    /\ \E text \in TickerTexts :
         fsm' = [fsm EXCEPT ![u].ticker = upper(text),
                            ![u].state = "add.waiting_price"]
    /\ last' = NoOp
    /\ UNCHANGED << purchases, sales >>

\* handlers.process_price, for a price that is accepted
process_price(u) ==
    /\ BotFrame
    /\ fsm[u].state = "add.waiting_price"
    /\ fsm' = [fsm EXCEPT ![u].state = "add.waiting_quantity"]
    /\ last' = NoOp
    /\ UNCHANGED << purchases, sales >>

\* handlers.process_quantity
process_quantity(u) ==
    /\ BotFrame
    /\ fsm[u].state = "add.waiting_quantity"
    /\ \E quantity \in QuantityTexts :
         IF quantity <= 0
         THEN fsm' = fsm
         ELSE fsm' = [fsm EXCEPT ![u].quantity = quantity,
                                 ![u].state = "add.waiting_date"]
    /\ last' = NoOp
    /\ UNCHANGED << purchases, sales >>

\* handlers.process_calendar: a date is selected or not; add_purchase
\* works or raises
process_calendar(u) ==
    /\ BotFrame
    /\ fsm[u].state = "add.waiting_date"
    /\ \E selected \in BOOLEAN, db_ok \in BOOLEAN :
         IF ~selected
         THEN /\ UNCHANGED << purchases, fsm >>
              /\ last' = NoOp
         ELSE IF db_ok
              THEN /\ BagCardinality(purchases) < MaxRows
                   /\ purchases' = add_purchase(purchases, u, fsm[u].ticker,
                                                fsm[u].quantity)
                   /\ last' = Op("add_purchase", u, fsm[u].ticker,
                                 fsm[u].quantity, 0)
                   /\ fsm' = [fsm EXCEPT ![u] = NoFsm]
              ELSE /\ purchases' = purchases
                   /\ last' = NoOp
                   /\ fsm' = [fsm EXCEPT ![u] = NoFsm]
    /\ UNCHANGED sales

\* handlers.start_sell_position ("Sell Securities", registered after the
\* handlers of the add states, which take the text first)
start_sell_position(u) ==
    /\ BotFrame
    /\ fsm[u].state \notin AddStates \cup {"sell.waiting_ticker"}
    /\ fsm' = [fsm EXCEPT ![u].state = "sell.waiting_ticker"]
    /\ last' = NoOp
    /\ UNCHANGED << purchases, sales >>

\* handlers.process_sell_ticker
process_sell_ticker(u) ==
    /\ BotFrame
    /\ fsm[u].state = "sell.waiting_ticker"
    /\ \E text \in TickerTexts :
         LET symbol == upper(text)
             available_quantity ==
                 get_available_quantity(purchases, sales, u, symbol)
         IN  /\ last' = NoOp
             /\ IF available_quantity <= 0
                THEN fsm' = fsm
                ELSE fsm' = [fsm EXCEPT ![u].ticker = symbol,
                                        ![u].state = "sell.waiting_price"]
    /\ UNCHANGED << purchases, sales >>

\* handlers.process_sell_price, for a price that is accepted
process_sell_price(u) ==
    /\ BotFrame
    /\ fsm[u].state = "sell.waiting_price"
    /\ fsm' = [fsm EXCEPT ![u].state = "sell.waiting_quantity"]
    /\ last' = NoOp
    /\ UNCHANGED << purchases, sales >>

\* handlers.process_sell_quantity
process_sell_quantity(u) ==
    /\ BotFrame
    /\ fsm[u].state = "sell.waiting_quantity"
    /\ \E quantity \in QuantityTexts :
         IF quantity <= 0
         THEN /\ fsm' = fsm
              /\ last' = NoOp
         ELSE LET available_quantity ==
                      get_available_quantity(purchases, sales, u,
                                             fsm[u].ticker)
              IN  /\ last' = NoOp
                  /\ IF quantity > available_quantity
                     THEN fsm' = fsm
                     ELSE fsm' = [fsm EXCEPT
                                    ![u].quantity = quantity,
                                    ![u].state = "sell.waiting_date"]
    /\ UNCHANGED << purchases, sales >>

\* handlers.process_sell_calendar: the quantity is checked again, then
\* add_sale works or raises
process_sell_calendar(u) ==
    /\ BotFrame
    /\ fsm[u].state = "sell.waiting_date"
    /\ \E selected \in BOOLEAN, db_ok \in BOOLEAN :
         IF ~selected
         THEN /\ UNCHANGED << sales, fsm >>
              /\ last' = NoOp
         ELSE LET available_quantity ==
                      get_available_quantity(purchases, sales, u,
                                             fsm[u].ticker)
              IN  IF fsm[u].quantity > available_quantity
                  THEN /\ UNCHANGED << sales, fsm >>
                       /\ last' = NoOp
                  ELSE IF db_ok
                       THEN /\ BagCardinality(sales) < MaxRows
                            /\ sales' = add_sale(sales, u, fsm[u].ticker,
                                                 fsm[u].quantity)
                            /\ last' = Op("add_sale", u, fsm[u].ticker,
                                          fsm[u].quantity,
                                          available_quantity)
                            /\ fsm' = [fsm EXCEPT ![u] = NoFsm]
                       ELSE /\ sales' = sales
                            /\ last' = NoOp
                            /\ fsm' = [fsm EXCEPT ![u] = NoFsm]
    /\ UNCHANGED purchases

(***************************************************************************)
(* The price API: app/moex_market/api/main.py, get_price and               *)
(* get_prices_batch over the stored candles and the live quotes.           *)
(***************************************************************************)
\* most tickers of one batch request
MaxBatchTickers == 2

\* an optional value: None, or the value
null == << >>
Some(v) == << v >>

\* db.client.fetch for a ticker and today: it raises, or gives the rows
\* found, at most one (LIMIT 1), each holding close
StoreAnswers ==
    {[raises |-> TRUE, rows |-> << >>]} \cup
    {[raises |-> FALSE, rows |-> r] : r \in {<< >>, << null >>, << Some(1) >>}}
\* client.get_current_quotes: it raises, or gives the quotes; LAST and
\* CLOSE of the first quote, null when the field is absent
LiveValues == {null, Some(0), Some(2)}
LiveAnswers ==
    {[raises |-> TRUE, quotes |-> << >>]} \cup
    {[raises |-> FALSE, quotes |-> << >>]} \cup
    {[raises |-> FALSE, quotes |-> << [LAST |-> l, CLOSE |-> c] >>]
       : l \in LiveValues, c \in LiveValues}

\* what a helper gives its caller: an exception, or a value
Returns(price) == [raised |-> FALSE, price |-> price]
Raises == [raised |-> TRUE, price |-> null]

get_current_price_from_db_Raises(answer) ==
    IF answer.raises THEN Raises
    ELSE IF answer.rows # << >>
         THEN IF answer.rows[1] # null
              THEN Returns(answer.rows[1])
              ELSE Raises
         ELSE Returns(null)

\* get_current_price_from_db: float(rows[0][0]) when there is a row; every
\* exception, the one of float(None) included, is caught and gives None
get_current_price_from_db(answer) ==
    IF answer.raises THEN Returns(null)
    ELSE IF answer.rows # << >>
         THEN IF answer.rows[1] # null
              THEN Returns(answer.rows[1])
              ELSE Returns(null)
         ELSE Returns(null)

\* get_current_price_from_moex: LAST or CLOSE of the first quote; every
\* exception is caught and gives None
get_current_price_from_moex(answer) ==
    IF answer.raises THEN Returns(null)
    ELSE IF answer.quotes # << >>
         THEN LET quote == answer.quotes[1]
              IN  IF quote.LAST # null /\ quote.LAST # Some(0)
                  THEN Returns(quote.LAST)
                  ELSE Returns(quote.CLOSE)
         ELSE Returns(null)

\* a response: the status, the prices by key, the tickers asked of the
\* live source in the order of the asking
Response200(prices, asked) ==
    [status |-> 200, prices |-> prices, asked |-> asked]
Response500 == [status |-> 500, prices |-> {}, asked |-> << >>]

\* prices[key] = price
SetItem(prices, key, price) ==
    {e \in prices : e.key # key} \cup {[key |-> key, price |-> price]}

\* get_price: an exception that reaches it becomes a 500
get_price(store, live, symbol) ==
    LET price == get_current_price_from_db(store[upper(symbol)])
    IN  IF price.raised
        THEN Response500
        ELSE IF price.price # null
             THEN Response200({[key |-> upper(symbol),
                                price |-> price.price]}, << >>)
             ELSE LET quoted == get_current_price_from_moex(
                                   live[upper(symbol)])
                  IN  IF quoted.raised
                      THEN Response500
                      ELSE Response200({[key |-> upper(symbol),
                                         price |-> quoted.price]},
                                       << upper(symbol) >>)

\* get_prices_batch: the loop over request.tickers from index i
RECURSIVE BatchLoop(_, _, _, _, _, _)
BatchLoop(store, live, tickers, i, prices, asked) ==
    IF i > Len(tickers)
    THEN Response200(prices, asked)
    ELSE LET key == upper(tickers[i])
             price == get_current_price_from_db(store[key])
         IN  IF price.raised
             THEN Response500
             ELSE IF price.price = null
                  THEN LET quoted == get_current_price_from_moex(live[key])
                       IN  IF quoted.raised
                           THEN Response500
                           ELSE BatchLoop(store, live, tickers, i + 1,
                                          SetItem(prices, key, quoted.price),
                                          Append(asked, key))
                  ELSE BatchLoop(store, live, tickers, i + 1,
                                 SetItem(prices, key, price.price), asked)

get_prices_batch(store, live, tickers) ==
    BatchLoop(store, live, tickers, 1, {}, << >>)

\* request.tickers of a batch request
BatchRequests ==
    UNION {[1..n -> TickerTexts] : n \in 0..MaxBatchTickers}

NoApiCall == [op |-> "none", tickers |-> << >>, response |-> Response500]

ApiInit == api = NoApiCall

\* a GET /api/v1/prices/{ticker}
GetPrice ==
    /\ UNCHANGED mvars
    /\ UNCHANGED << news, polling_state, utcnow, npc, ci, msgs, runs,
                    first_text, last_save, chan_log, race, before,
                    cursor_was, tvars >>
    /\ UNCHANGED << fvars, rvars, cvars, twin, bvars >>
    /\ UNCHANGED << candles_today, quotes >>
    /\ UNCHANGED uvars
    /\ UNCHANGED selling
    /\ UNCHANGED wvars
    /\ api.op = "none"
    /\ \E symbol \in TickerTexts :
         api' = [op |-> "get_price", tickers |-> << symbol >>,
                 response |-> get_price(candles_today, quotes, symbol)]

\* a POST /api/v1/prices/batch
GetPricesBatch ==
    /\ UNCHANGED mvars
    /\ UNCHANGED << news, polling_state, utcnow, npc, ci, msgs, runs,
                    first_text, last_save, chan_log, race, before,
                    cursor_was, tvars >>
    /\ UNCHANGED << fvars, rvars, cvars, twin, bvars >>
    /\ UNCHANGED << candles_today, quotes >>
    /\ UNCHANGED uvars
    /\ UNCHANGED selling
    /\ UNCHANGED wvars
    /\ api.op = "none"
    /\ \E tickers \in BatchRequests :
         api' = [op |-> "get_prices_batch", tickers |-> tickers,
                 response |-> get_prices_batch(candles_today, quotes,
                                               tickers)]

ApiNext == GetPrice \/ GetPricesBatch

(***************************************************************************)
(* Registration: handlers.cmd_start and process_phone_contact, with        *)
(* PortfolioDatabase.create_user.  The dispatcher may run several          *)
(* process_phone_contact calls at a time; each await is a step.            *)
(***************************************************************************)
\* process_phone_contact calls that are followed
MaxAttempts == 2

Attempts == 1..MaxAttempts
TelegramIds == {1, 2}
\* contact.phone_number as it arrives
Phones == {"7900", "+7900", "+7901"}

\* phone_number = "+" + phone_number unless it starts with "+"
with_plus(phone_number) ==
    IF phone_number = "7900" THEN "+7900" ELSE phone_number

UserRow(telegram_id, phone_number) ==
    [telegram_id |-> telegram_id, phone_number |-> phone_number]

\* get_user_by_telegram_id: is there a row
get_user_by_telegram_id(rows, telegram_id) ==
    \E r \in BagToSet(rows) : r.telegram_id = telegram_id

IntegrityError_Never(rows, telegram_id) == FALSE

\* the unique index of users.telegram_id refuses the commit
IntegrityError(rows, telegram_id) ==
    \E r \in BagToSet(rows) : r.telegram_id = telegram_id

\* create_user: the new table and what the caller gets
create_user(rows, telegram_id, phone_number, db_ok) ==
    IF ~db_ok
    THEN [users |-> rows, result |-> "Exception"]
    ELSE IF IntegrityError(rows, telegram_id)
         THEN [users |-> rows, result |-> "ValueError"]
         ELSE [users |-> rows (+) SetToBag({UserRow(telegram_id,
                                                    phone_number)}),
               result |-> "registered"]

NoAttempt == [pc |-> "idle", sender |-> 0, contact |-> 0, phone |-> "",
              result |-> "none"]

SignupInit ==
    /\ users = EmptyBag
    /\ signup = [state |-> [u \in TelegramIds |-> "none"],
                 call |-> [a \in Attempts |-> NoAttempt]]

\* what the registration steps leave alone
SignupFrame ==
    /\ UNCHANGED mvars
    /\ UNCHANGED << news, polling_state, utcnow, npc, ci, msgs, runs,
                    first_text, last_save, chan_log, race, before,
                    cursor_was, tvars >>
    /\ UNCHANGED << fvars, rvars, cvars, twin, bvars >>
    /\ UNCHANGED avars
    /\ UNCHANGED selling
    /\ UNCHANGED wvars

\* handlers.cmd_start: state.clear(), and waiting_phone for a sender that
\* has no row
cmd_start(u) ==
    /\ SignupFrame
    /\ signup' = [signup EXCEPT
                    !.state[u] = IF get_user_by_telegram_id(users, u)
                                 THEN "none"
                                 ELSE "waiting_phone"]
    /\ signup'.state[u] # signup.state[u]
    /\ UNCHANGED users

\* process_phone_contact, up to its first await: the state filter and the
\* check of the contact's owner
ContactArrives(a) ==
    /\ SignupFrame
    /\ signup.call[a].pc = "idle"
    /\ \E sender \in TelegramIds, contact \in TelegramIds, phone \in Phones :
         /\ signup.state[sender] = "waiting_phone"
         /\ signup' = [signup EXCEPT
               !.call[a] =
                  IF contact # sender
                  THEN [pc |-> "done", sender |-> sender,
                        contact |-> contact, phone |-> phone,
                        result |-> "rejected"]
                  ELSE [pc |-> "checking", sender |-> sender,
                        contact |-> contact, phone |-> phone,
                        result |-> "none"]]
    /\ UNCHANGED users

\* process_phone_contact: existing_user = await get_user_by_telegram_id
ContactCheck(a) ==
    /\ SignupFrame
    /\ signup.call[a].pc = "checking"
    /\ LET c == signup.call[a]
       IN  signup' =
             IF get_user_by_telegram_id(users, c.sender)
             THEN [signup EXCEPT !.call[a].pc = "done",
                                 !.call[a].result = "already",
                                 !.state[c.sender] = "none"]
             ELSE [signup EXCEPT !.call[a].pc = "creating"]
    /\ UNCHANGED users

\* process_phone_contact: user = await db.create_user(...)
ContactCreate(a) ==
    /\ SignupFrame
    /\ signup.call[a].pc = "creating"
    /\ \E db_ok \in BOOLEAN :
         LET c == signup.call[a]
             r == create_user(users, c.sender, with_plus(c.phone), db_ok)
         IN  /\ users' = r.users
             /\ signup' =
                  IF r.result = "registered"
                  THEN [signup EXCEPT !.call[a].pc = "done",
                                      !.call[a].result = r.result,
                                      !.state[c.sender] = "none"]
                  ELSE [signup EXCEPT !.call[a].pc = "done",
                                      !.call[a].result = r.result]

SignupNext ==
    \/ \E u \in TelegramIds : cmd_start(u)
    \/ \E a \in Attempts : ContactArrives(a)
    \/ \E a \in Attempts : ContactCheck(a)
    \/ \E a \in Attempts : ContactCreate(a)

(***************************************************************************)
(* handlers.process_sell_calendar with several callbacks of one user in    *)
(* flight: each await of the handler is a step.                            *)
(***************************************************************************)
\* process_sell_calendar calls that are followed
MaxCallbacks == 2

Callbacks == 1..MaxCallbacks

NoCallback == [pc |-> "idle", user |-> 0, ticker |-> "", quantity |-> 0,
               available |-> 0, result |-> "none"]

SellingInit == selling = [c \in Callbacks |-> NoCallback]

\* what the steps of process_sell_calendar leave alone
SellingFrame ==
    /\ UNCHANGED mvars
    /\ UNCHANGED << news, polling_state, utcnow, npc, ci, msgs, runs,
                    first_text, last_save, chan_log, race, before,
                    cursor_was, tvars >>
    /\ UNCHANGED << fvars, rvars, cvars, twin >>
    /\ UNCHANGED << avars, uvars, wvars >>
    /\ UNCHANGED << purchases, last >>

\* the callback passes StateFilter(SellPositionState.waiting_date); the
\* user is found and calendar.process_selection gives a date or not
CallbackArrives(c) ==
    /\ SellingFrame
    /\ selling[c].pc = "idle"
    /\ \E u \in BotUsers, selected \in BOOLEAN :
         /\ fsm[u].state = "sell.waiting_date"
         /\ selling' = [selling EXCEPT
               ![c] = IF selected
                      THEN [NoCallback EXCEPT !.pc = "selected", !.user = u]
                      ELSE [NoCallback EXCEPT !.pc = "done", !.user = u,
                                              !.result = "no date"]]
    /\ UNCHANGED << sales, fsm >>

\* data = await state.get_data()
CallbackGetData(c) ==
    /\ SellingFrame
    /\ selling[c].pc = "selected"
    /\ selling' = [selling EXCEPT
                     ![c].pc = "read",
                     ![c].ticker = fsm[selling[c].user].ticker,
                     ![c].quantity = fsm[selling[c].user].quantity]
    /\ UNCHANGED << sales, fsm >>

\* available_quantity = await db.get_available_quantity(user.id, ticker),
\* and the comparison; with the data gone, ticker is None and ticker.upper()
\* raises into the except branch
CallbackCheck(c) ==
    /\ SellingFrame
    /\ selling[c].pc = "read"
    /\ LET t == selling[c]
           available_quantity ==
               get_available_quantity(purchases, sales, t.user, t.ticker)
       IN  IF t.ticker = ""
           THEN /\ selling' = [selling EXCEPT ![c].pc = "done",
                                              ![c].result = "Exception"]
                /\ fsm' = [fsm EXCEPT ![t.user] = NoFsm]
           ELSE IF t.quantity > available_quantity
                THEN /\ selling' = [selling EXCEPT
                                      ![c].pc = "done",
                                      ![c].available = available_quantity,
                                      ![c].result = "insufficient"]
                     /\ fsm' = fsm
                ELSE /\ selling' = [selling EXCEPT
                                      ![c].pc = "checked",
                                      ![c].available = available_quantity]
                     /\ fsm' = fsm
    /\ UNCHANGED sales

\* sale = await db.add_sale(...), then state.clear() on both branches
CallbackAddSale(c) ==
    /\ SellingFrame
    /\ selling[c].pc = "checked"
    /\ \E db_ok \in BOOLEAN :
         LET t == selling[c]
         IN  /\ sales' = IF db_ok
                         THEN add_sale(sales, t.user, t.ticker, t.quantity)
                         ELSE sales
             /\ selling' = [selling EXCEPT
                              ![c].pc = "done",
                              ![c].result = IF db_ok THEN "sold"
                                            ELSE "Exception"]
             /\ fsm' = [fsm EXCEPT ![t.user] = NoFsm]

SellingNext ==
    \/ \E c \in Callbacks : CallbackArrives(c)
    \/ \E c \in Callbacks : CallbackGetData(c)
    \/ \E c \in Callbacks : CallbackCheck(c)
    \/ \E c \in Callbacks : CallbackAddSale(c)

(***************************************************************************)
(* The handlers of handlers.py as the dispatcher reaches them: one chat    *)
(* of one telegram user, the updates taken one at a time, each given to    *)
(* the first registered handler whose filters pass.                        *)
(***************************************************************************)
\* most rows of table purchases, and of table sales, in the chat
MaxChatRows == 1

\* the telegram user of the chat
Me == 1

MenuTexts == {"Portfolio", "Add Securities", "Sell Securities", "Main Menu",
              "Cancel"}
LongText == "abcdefghijklmnopqrstu"
\* message.text of the updates
ChatTexts == MenuTexts \cup {"/start", "cancel", "sber", " ", LongText,
                             "1", "2", "0", "nan"}
\* the updates: a text, a contact (the sender's own or not), a click on a
\* calendar (a date or a move inside the calendar)
Events ==
    [kind : {"text"}, text : ChatTexts, flag : {FALSE}] \cup
    [kind : {"contact", "callback"}, text : {""}, flag : BOOLEAN]

\* text.strip().upper()
strip_upper(text) ==
    CASE text = "sber" -> "SBER"
      [] text = " " -> ""
      [] text = LongText -> "ABCDEFGHIJKLMNOPQRSTU"
      [] text = "nan" -> "NAN"
      [] text = "Sell Securities" -> "SELL SECURITIES"
      [] text = "Add Securities" -> "ADD SECURITIES"
      [] text = "Portfolio" -> "PORTFOLIO"
      [] text = "Main Menu" -> "MAIN MENU"
      [] text = "Cancel" -> "CANCEL"
      [] text = "cancel" -> "CANCEL"
      [] text = "/start" -> "/START"
      [] OTHER -> text
\* text.strip().lower() == "cancel"
is_cancel(text) == text = "cancel" \/ text = "Cancel"
\* len(ticker) > 20
len_over_20(upper_text) == upper_text = "ABCDEFGHIJKLMNOPQRSTU"

\* a float: not-a-number, or a value
Float(nan, value) == [nan |-> nan, value |-> value]
\* float(text.strip().replace(",", ".")): << >> for ValueError
float(text) ==
    CASE text = "1" -> << Float(FALSE, 1) >>
      [] text = "2" -> << Float(FALSE, 2) >>
      [] text = "0" -> << Float(FALSE, 0) >>
      [] text = "nan" -> << Float(TRUE, 0) >>
      [] OTHER -> << >>
\* int(text.strip()): << >> for ValueError
int(text) ==
    CASE text = "1" -> << 1 >>
      [] text = "2" -> << 2 >>
      [] text = "0" -> << 0 >>
      [] OTHER -> << >>
\* price <= 0: every comparison with not-a-number is false
float_le_0(x) == ~x.nan /\ x.value <= 0

\* FSMContext.get_data(): the keys ticker, price and quantity, "" and << >>
\* for an absent key
NoData == [ticker |-> "", price |-> << >>, quantity |-> << >>]
NoChat == [state |-> "none", data |-> NoData]

clear_StateOnly(c) == [c EXCEPT !.state = "none"]

\* state.clear(): the state and the data go
clear(c) == NoChat

\* the first handler registered in create_handlers_router whose filters
\* pass, message handlers and callback handlers in the order of the file
Route(state, ev) ==
    IF ev.kind = "text" /\ ev.text = "/start"
    THEN "cmd_start"
    ELSE IF ev.kind = "contact" /\ state = "waiting_phone"
    THEN "process_phone_contact"
    ELSE IF ev.kind = "text" /\ ev.text = "Portfolio"
    THEN "show_portfolio"
    ELSE IF ev.kind = "text" /\ ev.text = "Add Securities"
    THEN "start_add_position"
    ELSE IF ev.kind = "text" /\ ev.text = "Cancel"
    THEN "cancel_action"
    ELSE IF ev.kind = "text" /\ ev.text = "Main Menu"
    THEN "back_to_main_menu"
    ELSE IF ev.kind = "text" /\ state = "add.waiting_ticker"
    THEN "process_ticker"
    ELSE IF ev.kind = "text" /\ state = "add.waiting_price"
    THEN "process_price"
    ELSE IF ev.kind = "text" /\ state = "add.waiting_quantity"
    THEN "process_quantity"
    ELSE IF ev.kind = "callback" /\ state = "add.waiting_date"
    THEN "process_calendar"
    ELSE IF ev.kind = "text" /\ state = "add.waiting_date"
    THEN "process_date_text"
    ELSE IF ev.kind = "text" /\ ev.text = "Sell Securities"
    THEN "start_sell_position"
    ELSE IF ev.kind = "text" /\ state = "sell.waiting_ticker"
    THEN "process_sell_ticker"
    ELSE IF ev.kind = "text" /\ state = "sell.waiting_price"
    THEN "process_sell_price"
    ELSE IF ev.kind = "text" /\ state = "sell.waiting_quantity"
    THEN "process_sell_quantity"
    ELSE IF ev.kind = "callback" /\ state = "sell.waiting_date"
    THEN "process_sell_calendar"
    ELSE IF ev.kind = "text" /\ state = "sell.waiting_date"
    THEN "process_sell_date_text"
    ELSE "unhandled"

\* the values typed and accepted in the present wizard run
NoRunValues == [wizard |-> "none", ticker |-> "", price |-> << >>,
                quantity |-> << >>]
NoWrite == [table |-> "none", ticker |-> "", price |-> << >>,
            quantity |-> << >>]
NoUpdate == [event |-> [kind |-> "none", text |-> "", flag |-> FALSE],
             from |-> "none", handler |-> "none", wrote |-> NoWrite,
             typed |-> NoRunValues]

ChatInit ==
    /\ chat = NoChat
    /\ update = NoUpdate

\* what the handlers of the chat leave alone
ChatFrame ==
    /\ UNCHANGED mvars
    /\ UNCHANGED << news, polling_state, utcnow, npc, ci, msgs, runs,
                    first_text, last_save, chan_log, race, before,
                    cursor_was, tvars >>
    /\ UNCHANGED << fvars, rvars, cvars, twin >>
    /\ UNCHANGED << avars, selling, signup >>
    /\ UNCHANGED << fsm, last >>

\* the update ev goes to handler h, which writes w; from is the state it
\* arrived in and typed the history of the run
Took(ev, h, w, typed) ==
    /\ Route(chat.state, ev) = h
    /\ update' = [event |-> ev, from |-> chat.state, handler |-> h,
                  wrote |-> w, typed |-> typed]

Registered == get_user_by_telegram_id(users, Me)

\* cmd_start
OnStart(ev) ==
    /\ Route(chat.state, ev) \in {"cmd_start"}
    /\ ChatFrame
    /\ Took(ev, "cmd_start", NoWrite, NoRunValues)
    /\ chat' = IF Registered
               THEN clear(chat)
               ELSE [clear(chat) EXCEPT !.state = "waiting_phone"]
    /\ UNCHANGED << users, purchases, sales >>

\* process_phone_contact, of one piece
OnContact(ev) ==
    /\ Route(chat.state, ev) \in {"process_phone_contact"}
    /\ ChatFrame
    /\ Took(ev, "process_phone_contact", NoWrite, update.typed)
    /\ IF ~ev.flag
       THEN UNCHANGED << chat, users >>
       ELSE IF Registered
            THEN /\ chat' = clear(chat)
                 /\ users' = users
            ELSE \E db_ok \in BOOLEAN :
                   LET r == create_user(users, Me, "+7900", db_ok)
                   IN  /\ users' = r.users
                       /\ chat' = IF r.result = "registered"
                                  THEN clear(chat)
                                  ELSE chat
    /\ UNCHANGED << purchases, sales >>

\* show_portfolio
OnPortfolio(ev) ==
    /\ Route(chat.state, ev) \in {"show_portfolio"}
    /\ ChatFrame
    /\ Took(ev, "show_portfolio", NoWrite, NoRunValues)
    /\ chat' = clear(chat)
    /\ UNCHANGED << users, purchases, sales >>

\* cancel_action and back_to_main_menu
OnCancel(ev) ==
    /\ Route(chat.state, ev) \in {"cancel_action", "back_to_main_menu"}
    /\ ChatFrame
    /\ \/ Took(ev, "cancel_action", NoWrite, NoRunValues)
       \/ Took(ev, "back_to_main_menu", NoWrite, NoRunValues)
    /\ chat' = clear(chat)
    /\ UNCHANGED << users, purchases, sales >>

\* start_add_position and start_sell_position: set_state, the data stay
OnStartWizard(ev) ==
    /\ Route(chat.state, ev) \in {"start_add_position", "start_sell_position"}
    /\ ChatFrame
    /\ \/ /\ Took(ev, "start_add_position", NoWrite,
                  IF Registered
                  THEN [NoRunValues EXCEPT !.wizard = "add"]
                  ELSE update.typed)
          /\ chat' = IF Registered
                     THEN [chat EXCEPT !.state = "add.waiting_ticker"]
                     ELSE chat
       \/ /\ Took(ev, "start_sell_position", NoWrite,
                  IF Registered
                  THEN [NoRunValues EXCEPT !.wizard = "sell"]
                  ELSE update.typed)
          /\ chat' = IF Registered
                     THEN [chat EXCEPT !.state = "sell.waiting_ticker"]
                     ELSE chat
    /\ UNCHANGED << users, purchases, sales >>

\* process_ticker
OnTicker(ev) ==
    /\ Route(chat.state, ev) \in {"process_ticker"}
    /\ ChatFrame
    /\ LET symbol == strip_upper(ev.text)
           bad == symbol = "" \/ len_over_20(symbol)
       IN  /\ Took(ev, "process_ticker", NoWrite,
                   IF bad THEN update.typed
                   ELSE [update.typed EXCEPT !.ticker = symbol])
           /\ chat' = IF bad
                      THEN chat
                      ELSE [chat EXCEPT !.data.ticker = symbol,
                                        !.state = "add.waiting_price"]
    /\ UNCHANGED << users, purchases, sales >>

\* process_price and process_sell_price
OnPrice(ev) ==
    /\ Route(chat.state, ev) \in {"process_price", "process_sell_price"}
    /\ ChatFrame
    /\ LET price == float(ev.text)
           bad == price = << >> \/ float_le_0(price[1])
       IN  \/ /\ Took(ev, "process_price", NoWrite,
                      IF bad THEN update.typed
                      ELSE [update.typed EXCEPT !.price = price])
              /\ chat' = IF bad
                         THEN chat
                         ELSE [chat EXCEPT !.data.price = price,
                                           !.state = "add.waiting_quantity"]
           \/ /\ Took(ev, "process_sell_price", NoWrite,
                      IF bad THEN update.typed
                      ELSE [update.typed EXCEPT !.price = price])
              /\ chat' = IF bad
                         THEN chat
                         ELSE [chat EXCEPT !.data.price = price,
                                           !.state = "sell.waiting_quantity"]
    /\ UNCHANGED << users, purchases, sales >>

\* process_quantity
OnQuantity(ev) ==
    /\ Route(chat.state, ev) \in {"process_quantity"}
    /\ ChatFrame
    /\ LET quantity == int(ev.text)
           bad == quantity = << >> \/ quantity[1] <= 0
       IN  /\ Took(ev, "process_quantity", NoWrite,
                   IF bad THEN update.typed
                   ELSE [update.typed EXCEPT !.quantity = quantity])
           /\ chat' = IF bad
                      THEN chat
                      ELSE [chat EXCEPT !.data.quantity = quantity,
                                        !.state = "add.waiting_date"]
    /\ UNCHANGED << users, purchases, sales >>

\* process_calendar
OnCalendar(ev) ==
    /\ Route(chat.state, ev) \in {"process_calendar"}
    /\ ChatFrame
    /\ IF ~Registered
       THEN /\ Took(ev, "process_calendar", NoWrite, NoRunValues)
            /\ chat' = clear(chat)
            /\ purchases' = purchases
       ELSE IF ~ev.flag
            THEN /\ Took(ev, "process_calendar", NoWrite, update.typed)
                 /\ UNCHANGED << chat, purchases >>
            ELSE \E db_ok \in BOOLEAN :
                   IF db_ok
                   THEN /\ BagCardinality(purchases) < MaxChatRows
                        /\ Took(ev, "process_calendar",
                                [table |-> "purchases",
                                 ticker |-> chat.data.ticker,
                                 price |-> chat.data.price,
                                 quantity |-> chat.data.quantity],
                                update.typed)
                        /\ purchases' =
                             add_purchase(purchases, Me, chat.data.ticker,
                                          chat.data.quantity[1])
                        /\ chat' = clear(chat)
                   ELSE /\ Took(ev, "process_calendar", NoWrite,
                                update.typed)
                        /\ purchases' = purchases
                        /\ chat' = clear(chat)
    /\ UNCHANGED << users, sales >>

\* process_date_text and process_sell_date_text: "cancel" in any case
\* clears, every other text leaves the state
OnDateText(ev) ==
    /\ Route(chat.state, ev) \in {"process_date_text", "process_sell_date_text"}
    /\ ChatFrame
    /\ \/ Took(ev, "process_date_text", NoWrite, update.typed)
       \/ Took(ev, "process_sell_date_text", NoWrite, update.typed)
    /\ chat' = IF is_cancel(ev.text) THEN clear(chat) ELSE chat
    /\ UNCHANGED << users, purchases, sales >>

\* process_sell_ticker
OnSellTicker(ev) ==
    /\ Route(chat.state, ev) \in {"process_sell_ticker"}
    /\ ChatFrame
    /\ LET symbol == strip_upper(ev.text)
           bad == \/ symbol = ""
                  \/ len_over_20(symbol)
                  \/ get_available_quantity(purchases, sales, Me, symbol)
                        <= 0
       IN  /\ Took(ev, "process_sell_ticker", NoWrite,
                   IF ~Registered THEN NoRunValues
                   ELSE IF bad THEN update.typed
                   ELSE [update.typed EXCEPT !.ticker = symbol])
           /\ chat' = IF ~Registered THEN clear(chat)
                      ELSE IF bad THEN chat
                      ELSE [chat EXCEPT !.data.ticker = symbol,
                                        !.state = "sell.waiting_price"]
    /\ UNCHANGED << users, purchases, sales >>

\* process_sell_quantity
OnSellQuantity(ev) ==
    /\ Route(chat.state, ev) \in {"process_sell_quantity"}
    /\ ChatFrame
    /\ LET quantity == int(ev.text)
           bad == \/ quantity = << >>
                  \/ quantity[1] <= 0
                  \/ quantity[1] >
                       get_available_quantity(purchases, sales, Me,
                                              chat.data.ticker)
       IN  /\ Took(ev, "process_sell_quantity", NoWrite,
                   IF ~Registered THEN NoRunValues
                   ELSE IF bad THEN update.typed
                   ELSE [update.typed EXCEPT !.quantity = quantity])
           /\ chat' = IF ~Registered THEN clear(chat)
                      ELSE IF bad THEN chat
                      ELSE [chat EXCEPT !.data.quantity = quantity,
                                        !.state = "sell.waiting_date"]
    /\ UNCHANGED << users, purchases, sales >>

\* process_sell_calendar
OnSellCalendar(ev) ==
    /\ Route(chat.state, ev) \in {"process_sell_calendar"}
    /\ ChatFrame
    /\ IF ~Registered
       THEN /\ Took(ev, "process_sell_calendar", NoWrite, NoRunValues)
            /\ chat' = clear(chat)
            /\ sales' = sales
       ELSE IF ~ev.flag
               \/ chat.data.quantity[1] >
                    get_available_quantity(purchases, sales, Me,
                                           chat.data.ticker)
            THEN /\ Took(ev, "process_sell_calendar", NoWrite, update.typed)
                 /\ UNCHANGED << chat, sales >>
            ELSE \E db_ok \in BOOLEAN :
                   IF db_ok
                   THEN /\ BagCardinality(sales) < MaxChatRows
                        /\ Took(ev, "process_sell_calendar",
                                [table |-> "sales",
                                 ticker |-> chat.data.ticker,
                                 price |-> chat.data.price,
                                 quantity |-> chat.data.quantity],
                                update.typed)
                        /\ sales' = add_sale(sales, Me, chat.data.ticker,
                                             chat.data.quantity[1])
                        /\ chat' = clear(chat)
                   ELSE /\ Took(ev, "process_sell_calendar", NoWrite,
                                update.typed)
                        /\ sales' = sales
                        /\ chat' = clear(chat)
    /\ UNCHANGED << users, purchases >>

ChatNext ==
    \E ev \in Events :
       \/ OnStart(ev)
       \/ OnContact(ev)
       \/ OnPortfolio(ev)
       \/ OnCancel(ev)
       \/ OnStartWizard(ev)
       \/ OnTicker(ev)
       \/ OnPrice(ev)
       \/ OnQuantity(ev)
       \/ OnCalendar(ev)
       \/ OnDateText(ev)
       \/ OnSellTicker(ev)
       \/ OnSellQuantity(ev)
       \/ OnSellCalendar(ev)

BotNext ==
    \/ \E u \in BotUsers : show_portfolio(u)
    \/ \E u \in BotUsers : cancel_action(u)
    \/ \E u \in BotUsers : start_add_position(u)
    \/ \E u \in BotUsers : process_ticker(u)
    \/ \E u \in BotUsers : process_price(u)
    \/ \E u \in BotUsers : process_quantity(u)
    \/ \E u \in BotUsers : process_calendar(u)
    \/ \E u \in BotUsers : start_sell_position(u)
    \/ \E u \in BotUsers : process_sell_ticker(u)
    \/ \E u \in BotUsers : process_sell_price(u)
    \/ \E u \in BotUsers : process_sell_quantity(u)
    \/ \E u \in BotUsers : process_sell_calendar(u)

NewsNext ==
    \/ NewsMain
    \/ GetEntity
    \/ GetMessages
    \/ FloodSleep
    \/ SaveNext
    \/ ChannelDone
    \/ NewsExit

(***************************************************************************)
(* Specifications: the market monitor (Spec) and the news ingestor         *)
(* (SpecNews).  Each leaves the other service's state alone.               *)
(***************************************************************************)
vars == << mvars, nvars >>

\* the calls of single functions, before any call
\* no candle of today and no quote, before any request
ApiQuiet ==
    /\ candles_today = [tk \in BotTickers |-> [raises |-> FALSE,
                                                rows |-> << >>]]
    /\ quotes = [tk \in BotTickers |-> [raises |-> FALSE, quotes |-> << >>]]
    /\ ApiInit

CallsInit ==
    /\ FilterInit /\ RunInit /\ CursorInit /\ TwinInit /\ BotInit
    /\ ApiQuiet /\ SignupInit /\ SellingInit /\ ChatInit

Init == MonitorInit /\ NewsInit /\ TagsInit /\ CallsInit

Next == MonitorNext

Spec == Init /\ [][Next]_vars

NextNews == NewsNext

InitNews ==
    MonitorInit /\ source = << >> /\ NewsInit /\ TagsInit /\ CallsInit

SpecNews == InitNews /\ [][NextNews]_vars

\* the monitor with process restarts, while the exchange keeps its list
NextRestart ==
    \/ monitor_cycle
    \/ Poll
    \/ Filter
    \/ Persist
    \/ IndexStep
    \/ Sleep
    \/ Restart

SpecRestart == Init /\ [][NextRestart]_vars

\* extract_tags on every text of TagTexts
InitTags ==
    /\ MonitorInit
    /\ source = << >>
    /\ NewsInit
    /\ tag_text \in TagTexts
    /\ tags = {}
    /\ tpc = "ready"
    /\ CallsInit

SpecTags == InitTags /\ [][TagsNext]_vars

\* filter_new_candles on every ticker and list
SpecFilter == InitNews /\ [][FilterNext]_vars

\* run started at any tick of a minute
InitRun ==
    /\ MonitorInit /\ source = << >> /\ NewsInit /\ TagsInit /\ FilterInit
    /\ rclock \in 0..(TicksPerMinute - 1)
    /\ rrun = NoRun
    /\ CursorInit
    /\ TwinInit
    /\ BotInit
    /\ ApiQuiet
    /\ SignupInit
    /\ SellingInit
    /\ ChatInit

SpecRun == InitRun /\ [][RunNext]_vars

\* update_poll_state called for any channel with any time
SpecCursor == InitNews /\ [][CursorNext]_vars

\* poll_channel on two stores that differ in their cursors
InitTwin ==
    /\ MonitorInit /\ source = << >> /\ NewsInit /\ TagsInit
    /\ FilterInit /\ RunInit /\ CursorInit /\ BotInit /\ ApiQuiet
    /\ SignupInit /\ SellingInit /\ ChatInit
    /\ TwinStart

SpecTwin == InitTwin /\ [][TwinNext]_vars

\* the price API asked once, over any answers of the store and of the
\* live source
InitApi ==
    /\ MonitorInit /\ source = << >> /\ NewsInit /\ TagsInit
    /\ FilterInit /\ RunInit /\ CursorInit /\ TwinInit /\ BotInit
    /\ SignupInit /\ SellingInit /\ ChatInit
    /\ candles_today \in [BotTickers -> StoreAnswers]
    /\ quotes \in [BotTickers -> LiveAnswers]
    /\ ApiInit

SpecApi == InitApi /\ [][ApiNext]_vars

\* registration with process_phone_contact calls running at a time
SpecSignup == InitNews /\ [][SignupNext]_vars

\* a user who bought a ticker has typed a quantity that was available and
\* is asked for the date of the sale
InitSelling ==
    /\ MonitorInit /\ source = << >> /\ NewsInit /\ TagsInit
    /\ FilterInit /\ RunInit /\ CursorInit /\ TwinInit
    /\ ApiQuiet /\ SignupInit /\ SellingInit /\ ChatInit
    /\ sales = EmptyBag
    /\ last = NoOp
    /\ \E u \in BotUsers, tk \in BotTickers, bought \in 1..MaxQuantity :
         /\ purchases = SetToBag({LedgerRow(u, tk, bought)})
         /\ \E quantity \in 1..bought :
              fsm = [v \in BotUsers |->
                       IF v = u
                       THEN [state |-> "sell.waiting_date", ticker |-> tk,
                             quantity |-> quantity]
                       ELSE NoFsm]

SpecSelling == InitSelling /\ [][SellingNext]_vars

\* one chat, its updates dispatched one at a time
SpecChat == InitNews /\ [][ChatNext]_vars

\* the portfolio bot, its handlers run one at a time
SpecBot == InitNews /\ [][BotNext]_vars

\* save_news under concurrent callers
SpecRace == InitNews /\ [][RaceNext]_vars

\* The monitor is one coroutine of an asyncio loop: every await of run
\* returns (the HTTP calls carry timeouts, sleep ends), so each of its steps
\* that is enabled is taken.  The exchange owes nothing.
MonitorFairness ==
    /\ WF_vars(monitor_cycle)
    /\ WF_vars(Poll)
    /\ WF_vars(Filter)
    /\ WF_vars(Persist)
    /\ WF_vars(IndexStep)
    /\ WF_vars(Sleep)

FairSpec == Init /\ [][Next]_vars /\ MonitorFairness

(***************************************************************************)
(* Vocabulary of the checks on the market monitor.                         *)
(***************************************************************************)
\* this cycle's fetch is over and "filtered" holds its result
AfterPoll == pc \in {"filtering", "persisting", "index", "sleeping"}
\* it is settled what this cycle passes to the insert: new_data, and the
\* empty list when no insert is issued
StepDecided == pc \in {"persisting", "index", "sleeping"}
\* this cycle's ticker step is over
StepOver == pc \in {"index", "sleeping"}
InsertFailed == outcome \in {"StoreError", "ValueError"}

RowCount == BagCardinality(ticker_candles)
StoredBegins(tk) == {k.begin : k \in {x \in BagToSet(inserted) : x.ticker = tk}}

\* the window, stated on the begin strings themselves
WellFormedBegin(b) == b.kind = "iso"
InsideWindow(b, t_now) ==
    WellFormedBegin(b) /\ b.t >= t_now - filter_hours * HourTicks
WindowOf(candles, t_now) ==
    SelectSeq(candles, LAMBDA c : InsideWindow(c.begin, t_now))

NoRepeatedBegin(candles) ==
    \A i, j \in 1..Len(candles) :
        i # j => candles[i].begin # candles[j].begin

(***************************************************************************)
(* C1  Candle idempotence.  While the source answers every cycle of the    *)
(* process with the same candle list and the first cycle's insert          *)
(* succeeded, no later cycle inserts a row: the number of rows of          *)
(* ticker_candles stays what it was after cycle 1.                         *)
(***************************************************************************)
C1_Idempotent ==
    first.set => RowCount = first.rows

\* a second or later cycle of such a run has fetched candles inside the
\* window and has ended its ticker step
C1_Witness ==
    /\ first.set
    /\ cycles >= 2
    /\ pc = "sleeping"
    /\ fetch_exc = "none"
    /\ filtered # << >>

(***************************************************************************)
(* C2  At-most-once persistence.  In one process lifetime no               *)
(* (ticker, begin) key is part of more than one successful insert, and no  *)
(* batch handed to the store holds the same begin twice, whatever the      *)
(* source returns and whichever inserts fail.                              *)
(***************************************************************************)
C2_AtMostOnce ==
    /\ \A k \in BagToSet(inserted) : CopiesIn(k, inserted) = 1
    /\ pc = "persisting" => NoRepeatedBegin(new_data)

\* a batch is about to be inserted in a cycle whose fetched list repeats a
\* begin, in a process that has stored candles before
C2_Witness ==
    /\ pc = "persisting"
    /\ ~NoRepeatedBegin(filtered)
    /\ Len(new_data) = 1
    /\ StoredBegins(ticker) # {}

(***************************************************************************)
(* C3  Dedup rollback.  After a failed insert every begin of the failed    *)
(* batch is absent from cache[ticker] while the begins stored earlier stay *)
(* in it, and the next cycle with the same source data passes exactly the  *)
(* candles of the failed batch to the insert again.                        *)
(***************************************************************************)
C3_RollbackDone ==
    (StepOver /\ InsertFailed) =>
        /\ Begins(new_data) \cap cache[ticker] = {}
        /\ StoredBegins(ticker) \subseteq cache[ticker]

C3_RollbackRetry ==
    /\ C3_RollbackDone
    /\ (StepDecided /\ prev.failed) => new_data = prev.new_data

(***************************************************************************)
(* Vocabulary of the checks on the news ingestor.                          *)
(***************************************************************************)
RowsOfKey(k) == {r \in BagToSet(news) : KeyOfRow(r) = k}
CopiesOfKey(k) ==
    BagCardinality([r \in RowsOfKey(k) |-> CopiesIn(r, news)])
\* the call recorded in last_save came after a successful save of its pair
LaterCall == last_save.called /\ last_save.succeeded_before

(***************************************************************************)
(* C4  News uniqueness.  In one lifetime of the news table: once a         *)
(* save_news call for a (msg_id, channel) pair has returned True, a later  *)
(* call for the pair, whatever its text, never returns True and adds no    *)
(* row, and it returns False whenever the store answers its lookup; at     *)
(* every moment each pair that was saved has exactly one row, with the     *)
(* text of the first successful call, and a pair never saved has none.     *)
(***************************************************************************)
C4_NewsUnique ==
    /\ LaterCall =>
         /\ last_save.result # "True"
         /\ last_save.added = 0
         /\ (last_save.db # "fail_select" => last_save.result = "False")
    /\ \A k \in NewsKeys :
         IF first_text[k] = "none"
         THEN RowsOfKey(k) = {}
         ELSE /\ CopiesOfKey(k) = 1
              /\ RowsOfKey(k) = {NewsRow(k.msg_id, k.channel, first_text[k])}

\* a saved pair is offered again with another text and is turned down
C4_Witness ==
    /\ LaterCall
    /\ last_save.text # first_text[last_save.key]
    /\ last_save.result = "False"
    /\ CopiesOfKey(last_save.key) = 1

(***************************************************************************)
(* C5  News idempotence across restarts.  A row that was in the news table *)
(* when the process went down is in the table throughout the next run      *)
(* started through main(), and no save_news call of that run inserts its   *)
(* (msg_id, channel) pair again.                                           *)
(***************************************************************************)
C5_RestartSafe ==
    (before # NoRow /\ npc # "down") =>
        /\ before \in BagToSet(news)
        /\ ~ ( /\ last_save.called
               /\ last_save.key = KeyOfRow(before)
               /\ last_save.result = "True" )

(***************************************************************************)
(* C6  Windowing correctness.  fetch_ticker_data keeps a candle if and     *)
(* only if its begin parses and begin >= now - filter_hours: a begin       *)
(* exactly filter_hours before now is kept, one tick older is dropped, and *)
(* nothing is dropped for being newer.                                     *)
(***************************************************************************)
C6_Window ==
    (AfterPoll /\ fetch_exc = "none") =>
        /\ filtered = WindowOf(source, now)
        /\ \A i \in 1..Len(source) :
             LET b == source[i].begin
             IN  /\ (WellFormedBegin(b)
                     /\ b.t = now - filter_hours * HourTicks)
                        => b \in Begins(filtered)
                 /\ (WellFormedBegin(b)
                     /\ b.t = now - filter_hours * HourTicks - 1)
                        => b \notin Begins(filtered)
                 /\ (WellFormedBegin(b) /\ b.t > now - filter_hours * HourTicks)
                        => b \in Begins(filtered)

\* one fetch has met a begin exactly on the threshold and one a tick older
C6_Witness ==
    /\ AfterPoll
    /\ fetch_exc = "none"
    /\ \E i, j \in 1..Len(source) :
          /\ source[i].begin = Iso(now - filter_hours * HourTicks, " ")
          /\ source[j].begin = Iso(now - filter_hours * HourTicks - 1, " ")
    /\ Len(filtered) = 1

(***************************************************************************)
(* C7  End-to-end scenario.  Source candles at 09:30, 09:31, 09:32,        *)
(* filter_hours = 1, now = 10:00: all three pass the window, the first     *)
(* cycle persists exactly 3 rows, an identical later cycle persists none,  *)
(* and cache[ticker] then holds exactly 3 begins.                          *)
(***************************************************************************)
C7_EndToEnd ==
    /\ (cycles = 1 /\ source = E2E_Source /\ now = NowStart
        /\ fetch_exc = "none" /\ AfterPoll)
          => /\ filtered = E2E_Source
             /\ (StepOver /\ outcome = "ok")
                    => /\ RowCount = 3
                       /\ Cardinality(cache[ticker]) = 3
    /\ (first.set /\ first.now = NowStart
        /\ source = E2E_Source /\ cycles >= 2 /\ StepOver)
          => /\ first.rows = 3
             /\ new_data = << >>
             /\ outcome = "nonew"
             /\ RowCount = 3
             /\ Cardinality(cache[ticker]) = 3

\* the identical second cycle of the scenario has ended
C7_Witness ==
    /\ first.set
    /\ first.now = NowStart
    /\ source = E2E_Source
    /\ cycles >= 2
    /\ pc = "sleeping"
    /\ Len(filtered) = 3

(***************************************************************************)
(* C8  The monitor loop is never stopped by an ingestion failure.  No      *)
(* exception of a source fetch or of a store insert leaves monitor_cycle   *)
(* or ends run, and after every such failure the loop reaches the start of *)
(* a next cycle.                                                           *)
(***************************************************************************)
IngestionFailed ==
    \/ StepOver /\ (fetch_exc # "none" \/ InsertFailed)
    \/ pc = "sleeping" /\ index_outcome \in {"ConnectionError", "StoreError"}

C8_LoopSurvives ==
    /\ [](pc # "stopped")
    /\ [](IngestionFailed => <>(pc = "polling"))

\* one cycle in which the candle insert and the index insert both failed
C8_Witness ==
    /\ pc = "sleeping"
    /\ outcome = "StoreError"
    /\ index_outcome = "StoreError"

(***************************************************************************)
(* C9  Record-level validation isolation.  If one candle of a batch has a  *)
(* malformed begin or end, only that candle is skipped: every well-formed  *)
(* candle of the same fetch that lies inside the window is persisted in    *)
(* the same cycle (the store itself working) and ends the cycle marked as  *)
(* seen.                                                                   *)
(***************************************************************************)
WellFormedCandle(c) == WellFormedBegin(c.begin) /\ c.end # "bad"

C9_SiblingsPersist ==
    (StepOver /\ fetch_exc = "none" /\ outcome # "StoreError") =>
        \A i \in 1..Len(source) :
            (WellFormedCandle(source[i]) /\ InsideWindow(source[i].begin, now))
                => /\ source[i].begin \in cache[ticker]
                   /\ source[i].begin \in StoredBegins(ticker)

(***************************************************************************)
(* C10  Eventual retry.  A candle filtered as new whose insert failed is   *)
(* never dropped for good without having been stored while the source      *)
(* keeps returning it: when the next cycle has fetched the same list, each *)
(* candle of the failed batch is still inside the window, a candidate for  *)
(* the insert.  (The clock never runs backwards: a candle that has left    *)
(* the window is never kept by a fetch again.)                             *)
(***************************************************************************)
C10_NeverDropped ==
    (AfterPoll /\ prev.failed) =>
        \A i \in 1..Len(prev.new_data) :
            InsideWindow(prev.new_data[i].begin, now)

(***************************************************************************)
(* Vocabulary of the checks on one pass of the news ingestor.              *)
(***************************************************************************)
\* poll_all_channels has gone through its list
PassOver == runs > 0 /\ npc \in {"closing", "down"}
\* the poll of channel c has processed its page: every message was saved,
\* skipped or failed to persist
Processed(c) == chan_log[c].fetched /\ chan_log[c].ended \in {"done", "save_error"}

(***************************************************************************)
(* C11  The poll cursor is updated unconditionally.  Whenever poll_channel *)
(* has fetched a channel's messages and has processed them (each saved,    *)
(* skipped as a duplicate, or failed to persist), the channel's row of     *)
(* polling_state holds the wall-clock time read after the processing.      *)
(***************************************************************************)
C11_CursorAlways ==
    \A c \in ChannelSet :
        Processed(c) =>
            /\ chan_log[c].cursor_at # 0
            /\ polling_state[c] = chan_log[c].cursor_at

(***************************************************************************)
(* C12  Channel isolation.  When the pass of poll_all_channels is over,    *)
(* every channel of the list has been polled, whatever failed in the       *)
(* channels before it; and a channel whose handle was not resolved has     *)
(* nothing fetched, nothing saved and no cursor written in that pass.      *)
(***************************************************************************)
C12_ChannelIsolation ==
    /\ PassOver => \A c \in ChannelSet : chan_log[c].ended # "none"
    /\ npc # "down" =>
         \A i \in 1..Len(channels) : i < ci => chan_log[channels[i]].ended # "none"
    /\ \A c \in ChannelSet :
         chan_log[c].ended = "unresolved" =>
             /\ ~chan_log[c].fetched
             /\ chan_log[c].added = 0
             /\ chan_log[c].cursor_at = 0
             /\ polling_state[c] = 0
             /\ \A r \in BagToSet(news) : r.channel # c

\* the first channel failed to persist a message, the second was polled,
\* saved a message and wrote its cursor
C12_Witness ==
    /\ PassOver
    /\ chan_log[channels[1]].ended = "save_error"
    /\ chan_log[channels[2]].ended = "done"
    /\ chan_log[channels[2]].added > 0

(***************************************************************************)
(* C13  Rate-limit handling.  After a FloodWaitError with s seconds in a   *)
(* channel's poll nothing more is saved for the channel in that pass and   *)
(* no cursor is written; the ingestor has slept s seconds before it goes   *)
(* on with the next channel; the rows saved before the signal stay saved.  *)
(***************************************************************************)
C13_RateLimit ==
    /\ [](\A c \in ChannelSet :
            chan_log[c].ended = "flood" =>
                /\ chan_log[c].flood_s \in FloodSeconds
                /\ chan_log[c].cursor_at = 0
                /\ (npc = "flood_wait" /\ channels[ci] = c)
                     \/ chan_log[c].slept = chan_log[c].flood_s)
    /\ [][\A c \in ChannelSet :
            chan_log[c].ended = "flood" =>
                /\ chan_log'[c].added = chan_log[c].added
                /\ (npc = "flood_wait" /\ channels[ci] = c) =>
                      /\ news' = news
                      /\ npc' \in {"channel", "closing"}]_vars

\* the first channel met a rate limit of 2 seconds; the poll of the next
\* channel is under way and is saving its page
C13_Witness ==
    /\ chan_log[channels[1]].ended = "flood"
    /\ chan_log[channels[1]].slept = 2
    /\ ci = 2
    /\ npc = "saving"
    /\ msgs # << >>

(***************************************************************************)
(* C14  Racing save_news calls.  When two calls for the same               *)
(* (msg_id, channel) have both passed the existence check before either    *)
(* inserted, exactly one of them inserts its row and returns True, the     *)
(* other meets the uniqueness violation and returns False, neither raises, *)
(* and the pair has exactly one row afterwards.                            *)
(***************************************************************************)
BothPassed(p, q) ==
    /\ p # q
    /\ race[p].pc = "returned"
    /\ race[q].pc = "returned"
    /\ race[p].key = race[q].key
    /\ race[p].passed
    /\ race[q].passed

C14_RaceOneWins ==
    /\ \A p, q \in Callers :
         BothPassed(p, q) =>
             /\ {race[p].result, race[q].result} = {"True", "False"}
             /\ CopiesOfKey(race[p].key) = 1
             /\ \E r \in RowsOfKey(race[p].key) :
                    r.text = IF race[p].result = "True"
                             THEN race[p].text ELSE race[q].text
    /\ \A k \in NewsKeys : CopiesOfKey(k) <= 1

\* the two calls raced with different texts and the second caller lost
C14_Witness ==
    /\ BothPassed(1, 2)
    /\ race[1].text # race[2].text
    /\ race[1].result = "True"
    /\ race[2].result = "False"

(***************************************************************************)
(* C15  Index snapshot without systime.  save_index_data with a snapshot   *)
(* whose SYSTIME is absent or empty performs no insert and leaves          *)
(* index_cache unchanged; a snapshot whose SYSTIME is already in           *)
(* index_cache performs no insert either; every systime has at most one    *)
(* row in index_values in one process lifetime.                            *)
(***************************************************************************)
C15_IndexSnapshot ==
    /\ [](\A st \in BagToSet(index_values) : CopiesIn(st, index_values) = 1)
    /\ [][(pc = "index" /\ snapshot'.fetched
           /\ (snapshot'.systime = "" \/ snapshot'.systime \in index_cache))
             => /\ index_values' = index_values
                /\ index_cache' = index_cache]_vars

\* a snapshot without SYSTIME has been handled by a process that had
\* stored a snapshot before
C15_Witness ==
    /\ pc = "sleeping"
    /\ snapshot.fetched
    /\ snapshot.systime = ""
    /\ index_cache # {}
    /\ index_values # EmptyBag

(***************************************************************************)
(* C16  Tag extraction.  extract_tags returns exactly the set of           *)
(* lower-cased words that directly follow a "#" in the text, each once:    *)
(* tags that differ only in letter case are one tag, and a text without    *)
(* "#word", or the empty text, gives the empty result.                     *)
(***************************************************************************)
\* positions i..j hold a whole word that directly follows a "#"
WordAfterHash(t, i, j) ==
    /\ i > 1
    /\ t[i - 1] = "#"
    /\ \A k \in i..j : t[k] \in WordChars
    /\ j = Len(t) \/ t[j + 1] \notin WordChars

LowerCased(word) ==
    [i \in 1..Len(word) |-> IF word[i] \in {"a", "A"} THEN "a" ELSE word[i]]

TagsOf(t) ==
    {LowerCased(SubSeq(t, i, j)) :
        << i, j >> \in {x \in (1..Len(t)) \X (1..Len(t)) :
                          x[1] <= x[2] /\ WordAfterHash(t, x[1], x[2])}}

C16_Tags ==
    tpc = "done" =>
        /\ tags = TagsOf(tag_text)
        /\ (\A i \in 1..Len(tag_text) :
               tag_text[i] = "#"
                  => (i = Len(tag_text) \/ tag_text[i + 1] \notin WordChars))
              => tags = {}

\* "#A#a": the two spellings of one tag
C16_Witness ==
    /\ tpc = "done"
    /\ tag_text = << "#", "A", "#", "a" >>
    /\ tags = {<< "a" >>}

(***************************************************************************)
(* C17  Cache-versus-store consistency.  At the end of every monitor cycle *)
(* (idle), every begin of cache[ticker] is the begin of a candle that a    *)
(* successful insert of this process stored, and its row is in             *)
(* ticker_candles, whatever fetches and inserts failed and whatever        *)
(* records were skipped.                                                   *)
(***************************************************************************)
C17_CacheInStore ==
    pc = "idle" =>
        \A tk \in TickerSet : \A b \in cache[tk] :
            /\ b \in StoredBegins(tk)
            /\ ~fromisoformat(ReplaceBlank(b)).raised
            /\ Row(tk, fromisoformat(ReplaceBlank(b)).dt)
                  \in BagToSet(ticker_candles)

\* a cycle whose insert failed has ended in a process that holds stored
\* begins in its cache
C17_Witness ==
    /\ pc = "idle"
    /\ prev.failed
    /\ cache[ticker] # {}

(***************************************************************************)
(* C18  Per-ticker cycle state machine.  A ticker step goes through fetch, *)
(* then filter, then at most one batched insert, in that order: the insert *)
(* is issued only when the filtered new set is not empty, at most once per *)
(* ticker per cycle, and a phase that fails or yields nothing ends the     *)
(* step without running the later phases.                                  *)
(***************************************************************************)
StepEnds == pc' \in {"index", "stopped"} \/ (pc' = "polling" /\ ti' = ti + 1)

C18_StateMachine ==
    [][/\ pc = "idle" => pc' \in {"idle", "polling"}
       /\ pc = "polling" =>
             /\ pc' = "filtering" \/ StepEnds
             /\ pc' = "filtering" <=> filtered' # << >>
             /\ new_data' = new_data /\ cache' = cache
       /\ pc = "filtering" =>
             /\ pc' = "persisting" \/ StepEnds
             /\ pc' = "persisting" <=> new_data' # << >>
       /\ pc = "persisting" => StepEnds
       /\ (ticker_candles' # ticker_candles \/ inserted' # inserted) =>
             /\ pc = "persisting"
             /\ new_data # << >>
       /\ pc \in {"index", "sleeping"} =>
             pc' \in {"sleeping", "idle", "stopped"}]_vars

\* a cycle after the first has fetched, filtered and inserted a batch of
\* two candles
C18_Witness ==
    /\ pc = "index"
    /\ cycles >= 2
    /\ outcome = "ok"
    /\ Len(new_data) = 2

(***************************************************************************)
(* C19  Optimistic marking.  filter_new_candles returns exactly the        *)
(* candles of its input whose begin is not yet in cache[ticker], the first *)
(* occurrence of a begin only and in input order, and adds those begins to *)
(* cache[ticker]; so when insert_ticker_candles_batch is called every      *)
(* begin of the batch is already in the seen-set.                          *)
(***************************************************************************)
FirstNewIndices(seen, candles) ==
    {i \in 1..Len(candles) :
        /\ candles[i].begin \notin seen
        /\ \A j \in 1..(i - 1) : candles[j].begin # candles[i].begin}

RECURSIVE InOrder(_, _, _)
InOrder(candles, keep, i) ==
    IF i > Len(candles)
    THEN << >>
    ELSE (IF i \in keep THEN << candles[i] >> ELSE << >>)
         \o InOrder(candles, keep, i + 1)

FirstNew(seen, candles) ==
    InOrder(candles, FirstNewIndices(seen, candles), 1)

C19_OptimisticMarking ==
    /\ [][pc = "filtering" =>
            /\ new_data' = FirstNew(cache[ticker], filtered)
            /\ cache'[ticker] = cache[ticker] \cup Begins(new_data')
            /\ ticker_candles' = ticker_candles]_vars
    /\ [](pc = "persisting" =>
            /\ new_data # << >>
            /\ Begins(new_data) \subseteq cache[ticker])

\* of two candles fetched one was already seen; the other is marked and is
\* about to be inserted
C19_Witness ==
    /\ pc = "persisting"
    /\ Len(filtered) = 2
    /\ NoRepeatedBegin(filtered)
    /\ Len(new_data) = 1
    /\ StoredBegins(ticker) # {}

(***************************************************************************)
(* C20  A fetch failure is an empty result.  When the source returns no    *)
(* candles, and when the call of the source fails, fetch_ticker_data       *)
(* returns the empty list and nothing is raised; the ticker's step then    *)
(* ends with the seen-set and the store as they were, and the ticker is    *)
(* not fetched a second time in the cycle.                                 *)
(***************************************************************************)
SourceGaveNothing == source = << >> \/ fetch_exc' # "none"

C20_FetchFailureIsEmpty ==
    [][(pc = "polling" /\ pc' # "polling" /\ SourceGaveNothing) =>
          /\ filtered' = << >>
          /\ outcome' = "nodata"
          /\ pc' = "index"
          /\ cache' = cache
          /\ ticker_candles' = ticker_candles
          /\ inserted' = inserted]_vars
    /\ [][pc = "polling" => (pc' # "polling")]_vars
    /\ [][(pc = "index" \/ pc = "sleeping") => (pc' # "polling")]_vars

\* the source call failed while candles were on offer and some were already
\* stored: the step is over, nothing was raised
C20_Witness ==
    /\ pc = "index"
    /\ fetch_exc = "ConnectionError"
    /\ outcome = "nodata"
    /\ source # << >>
    /\ cache[ticker] # {}
    /\ StoredBegins(ticker) = cache[ticker]

(***************************************************************************)
(* C21  The index step is independent of the ticker steps.  Every cycle    *)
(* goes from its ticker steps to the index step, whatever their outcome    *)
(* (no candles, nothing new, fetch failure, insert failure); there the     *)
(* snapshot is fetched and, when its systime is new and the insert         *)
(* succeeds, one row is added and the systime is cached.  The index step   *)
(* never changes cache or ticker_candles, and the ticker steps never       *)
(* change index_cache or index_values.                                     *)
(***************************************************************************)
InTickerStep == pc = "polling" \/ pc = "filtering" \/ pc = "persisting"

C21_IndexIndependent ==
    /\ [][InTickerStep =>
            /\ index_cache' = index_cache
            /\ index_values' = index_values
            /\ pc' \in {"polling", "filtering", "persisting", "index"}]_vars
    /\ [][(pc = "index") =>
            /\ cache' = cache
            /\ ticker_candles' = ticker_candles
            /\ inserted' = inserted]_vars
    /\ [][(pc # "sleeping" /\ pc' = "sleeping") => (pc = "index")]_vars
    /\ [][(/\ pc = "index"
           /\ snapshot'.fetched
           /\ snapshot'.systime # ""
           /\ snapshot'.systime \notin index_cache
           /\ index_outcome' = "ok") =>
            /\ index_values' =
                  index_values (+) SetToBag({snapshot'.systime})
            /\ index_cache' = index_cache \cup {snapshot'.systime}]_vars

\* the candle insert of the cycle failed and its index snapshot, a new
\* one, was persisted all the same
C21_Witness ==
    /\ pc = "sleeping"
    /\ outcome = "StoreError"
    /\ index_outcome = "ok"
    /\ snapshot.fetched
    /\ CopiesIn(snapshot.systime, index_values) = 1
    /\ cache[ticker] = {}

(***************************************************************************)
(* C22  Restart volatility of candle dedup.  A started process has empty   *)
(* seen-sets while the tables keep their rows; when the first cycle after  *)
(* a restart fetches, inside its window, candles that were stored before   *)
(* the restart and its insert succeeds, each of them gets one more row:    *)
(* the store takes a second row with the same (ticker, begin).             *)
(***************************************************************************)
RowOf(tk, candle) == Row(tk, fromisoformat(ReplaceBlank(candle.begin)).dt)

FirstCycleDone ==
    /\ restart.count > 0
    /\ cycles = 1
    /\ pc \in {"index", "sleeping"}

C22_RestartDuplicates ==
    /\ [](FirstCycleDone /\ outcome = "ok" =>
            \A i \in 1..Len(filtered) :
               CopiesIn(RowOf(ticker, filtered[i]), restart.stored) > 0 =>
                  CopiesIn(RowOf(ticker, filtered[i]), ticker_candles)
                     > CopiesIn(RowOf(ticker, filtered[i]), restart.stored))
    /\ [][(restart'.count > restart.count) =>
            /\ cache' = [tk \in TickerSet |-> {}]
            /\ index_cache' = {}
            /\ ticker_candles' = ticker_candles
            /\ index_values' = index_values]_vars

\* the first cycle after a restart has stored a second row for a candle
C22_Witness ==
    /\ FirstCycleDone
    /\ outcome = "ok"
    /\ \E i \in 1..Len(filtered) :
          /\ CopiesIn(RowOf(ticker, filtered[i]), restart.stored) = 1
          /\ CopiesIn(RowOf(ticker, filtered[i]), ticker_candles) = 2

(***************************************************************************)
(* C23  The dedup key is the raw begin string.  filter_new_candles takes   *)
(* two candles of one ticker for the same item exactly when their begin    *)
(* strings are equal; what is seen under one ticker plays no part for      *)
(* another ticker; two candles whose begin strings differ while they       *)
(* denote the same instant are both new.                                   *)
(***************************************************************************)
Instant(begin_str) == fromisoformat(ReplaceBlank(begin_str)).dt

SameInstantOtherString(b1, b2) ==
    /\ b1 # b2
    /\ b1.kind = "iso" /\ b2.kind = "iso"
    /\ Instant(b1) = Instant(b2)

C23_RawBeginKey ==
    fcall.n > 0 =>
       LET tk == fcall.ticker
           old == fcall.before[tk]
           given == SelectSeq(fcall.candles, LAMBDA c : ~IsFalsy(c.begin))
       IN  /\ fcall.new_candles = FirstNew(old, given)
           /\ fcache[tk] = old \cup Begins(given)
           /\ \A other \in FilterTickers \ {tk} :
                 fcache[other] = fcall.before[other]
           /\ \A i, j \in 1..Len(given) :
                 (/\ SameInstantOtherString(given[i].begin, given[j].begin)
                  /\ given[i].begin \notin old
                  /\ given[j].begin \notin old) =>
                    {given[i].begin, given[j].begin}
                       \subseteq Begins(fcall.new_candles)

\* one call was given the two spellings of an instant, one of them already
\* seen under the other ticker, and returned both
C23_Witness ==
    /\ fcall.n > 0
    /\ Len(fcall.new_candles) = 2
    /\ SameInstantOtherString(fcall.new_candles[1].begin,
                              fcall.new_candles[2].begin)
    /\ \E other \in FilterTickers \ {fcall.ticker} :
          fcall.new_candles[1].begin \in fcall.before[other]

(***************************************************************************)
(* C24  Cycle cadence.  After a completed cycle run sleeps 60 - s seconds, *)
(* s being the second of the minute (0..59) read when the cycle returns:   *)
(* between 1 and 60 seconds, ending in second 0 of the next minute.  After *)
(* an exception that reaches the loop it sleeps exactly 60 seconds.  No    *)
(* cycle starts before the sleep that follows the previous one is over.    *)
(***************************************************************************)
C24_Cadence ==
    /\ [](rrun.pc = "sleeping" =>
            /\ SecondOf(rrun.read_at) \in 0..59
            /\ rrun.wait = 60 - SecondOf(rrun.read_at)
            /\ rrun.wait \in 1..60)
    /\ [](rrun.pc = "backoff" => rrun.wait = 60)
    /\ [][(rrun.pc = "sleeping" /\ rrun'.pc = "cycle") =>
            /\ rclock' = rclock + rrun.wait * TicksPerSecond
            /\ SecondOf(rclock') = 0
            /\ MinuteOf(rclock') = MinuteOf(rrun.read_at) + 1]_vars
    /\ [][(rrun.pc = "backoff" /\ rrun'.pc = "cycle") =>
            (rclock' = rclock + 60 * TicksPerSecond)]_vars
    /\ [][(rrun.pc = "cycle" /\ rrun'.cycles > rrun.cycles) =>
            (rrun'.pc \in {"sleeping", "backoff", "stopped"})]_vars
    /\ [][(rrun.pc # "cycle" /\ rrun'.pc = "cycle") =>
            (rclock' > rclock)]_vars

\* a cycle that returned in second 59, half a second before the minute, has
\* been followed by a sleep of one second
C24_Witness ==
    /\ rrun.pc = "cycle"
    /\ rrun.cycles > 0
    /\ rrun.wait = 1
    /\ rrun.read_at % TicksPerSecond = 1
    /\ rclock = rrun.read_at + TicksPerSecond

(***************************************************************************)
(* C25  One cursor row per channel.  After any sequence of calls of        *)
(* update_poll_state made one at a time, table polling_state holds exactly *)
(* one row for every channel that was ever updated, with the time of the   *)
(* channel's last call, and no row for the others; a call leaves the rows  *)
(* of the other channels and table news as they were.                      *)
(***************************************************************************)
CursorRows(rows, c) ==
    [r \in {x \in BagToSet(rows) : x.channel = c} |-> CopiesIn(r, rows)]

C25_OneCursorRow ==
    /\ [](\A c \in ChannelSet :
            IF pcall.last[c].t = 0
            THEN CursorRows(ptable, c) = EmptyBag
            ELSE /\ BagCardinality(CursorRows(ptable, c)) = 1
                 /\ \A r \in BagToSet(CursorRows(ptable, c)) :
                       /\ r.last_poll_time.t = pcall.last[c].t
                       /\ r.last_poll_time.tzinfo = "utc")
    /\ [][(pcall'.n > pcall.n) =>
            /\ \A c \in ChannelSet \ {pcall'.channel} :
                  CursorRows(ptable', c) = CursorRows(ptable, c)
            /\ news' = news]_vars

\* both channels have a row; the last call overwrote the row of its
\* channel with an earlier time, given without tzinfo
C25_Witness ==
    /\ pcall.n = 3
    /\ \A c \in ChannelSet : pcall.last[c].t > 0
    /\ BagCardinality(ptable) = 2
    /\ pcall.last_poll_time = Datetime(1, "none")
    /\ \E r \in BagToSet(ptable) : r.last_poll_time.t = 2

(***************************************************************************)
(* C26  Monotonic polling cursor.  Over the poll passes, the wall clock    *)
(* never running backwards, the last_poll_time stored for a channel never  *)
(* decreases, and a pass in which the poll of the channel fails (handle    *)
(* not resolved, rate limit, exception) leaves the stored value as the     *)
(* pass before left it.                                                    *)
(***************************************************************************)
PollFailed(c) ==
    chan_log[c].ended \in {"unresolved", "flood", "fetch_error", "save_error",
                           "cursor_error"}

C26_MonotonicCursor ==
    \A c \in ChannelSet :
       /\ polling_state[c] >= cursor_was[c]
       /\ (PassOver /\ PollFailed(c)) => polling_state[c] = cursor_was[c]

(***************************************************************************)
(* C27  The fetch ignores the cursor.  Two polls that start from stores    *)
(* which differ in last_poll_time only, with the same channel, page and    *)
(* clock, make the same request (the latest 5 messages) and the same       *)
(* save_news calls and leave the same rows in table news.                  *)
(***************************************************************************)
C27_CursorIgnored ==
    /\ twin[1].request = twin[2].request
    /\ twin[1].calls = twin[2].calls
    /\ twin[1].store.news = twin[2].store.news
    /\ \A i \in Twins :
          twin[i].polls > 0 => twin[i].request.limit = 5

\* one store had no cursor for the channel and the other had one; both
\* polls asked to save the page's two messages
C27_Witness ==
    /\ twin[1].polls > 0
    /\ twin[1].start[twin[1].request.channel] = 0
    /\ twin[2].start[twin[2].request.channel] > 0
    /\ Len(twin[1].calls) = 2
    /\ Len(twin[2].calls) = 2
    /\ BagCardinality(twin[2].store.news) = 2

\* a step that wrote a purchase, or a sale
WrotePurchase == last'.op = "add_purchase"
WroteSale == last'.op = "add_sale"

\* C28: the ledger is append-only.  Every step of the bot keeps every row
\* of purchases and of sales; a step of add_purchase adds exactly one
\* purchase row and no sale, a step of add_sale adds exactly one sale row
\* and no purchase, and every other step, reading the portfolio and the
\* available quantity included, leaves both tables as they were.
C28_AppendOnly ==
    [][/\ purchases \sqsubseteq purchases'
       /\ sales \sqsubseteq sales'
       /\ WrotePurchase =>
            /\ BagCardinality(purchases') = BagCardinality(purchases) + 1
            /\ sales' = sales
       /\ WroteSale =>
            /\ BagCardinality(sales') = BagCardinality(sales) + 1
            /\ purchases' = purchases
       /\ (~WrotePurchase /\ ~WroteSale) =>
            (purchases' = purchases /\ sales' = sales)]_vars

\* a sale was appended to a ledger that already held a sale and two
\* purchases of the same user and ticker
C28_Witness ==
    /\ last.op = "add_sale"
    /\ BagCardinality(sales) = 2
    /\ BagCardinality(purchases) = 2
    /\ \A r \in BagToSet(purchases) \cup BagToSet(sales) :
         r.user_id = last.user /\ r.ticker = last.ticker

\* total quantity the user bought, and sold, of a ticker
TotalPurchased(u, tk) ==
    SumOver({r \in BagToSet(purchases) : r.user_id = u /\ r.ticker = tk},
            purchases)
TotalSold(u, tk) ==
    SumOver({r \in BagToSet(sales) : r.user_id = u /\ r.ticker = tk}, sales)

\* C29: the derived position is consistent.  The portfolio returned to a
\* user lists a ticker exactly when the total the user bought minus the
\* total the user sold of it is above zero, lists it once, and the
\* total_quantity listed equals get_available_quantity of that user and
\* ticker on the same ledger.
C29_PositionConsistent ==
    last.op = "get_user_portfolio" =>
       /\ \A e \in last.portfolio : e.ticker \in BotTickers
       /\ \A tk \in BotTickers :
            LET listed == {e \in last.portfolio : e.ticker = tk}
            IN  /\ (listed # {}) <=>
                      (TotalPurchased(last.user, tk)
                         - TotalSold(last.user, tk) > 0)
                /\ Cardinality(listed) <= 1
                /\ \A e \in listed :
                     e.total_quantity =
                        get_available_quantity(purchases, sales, last.user,
                                               tk)

\* the portfolio lists one ticker with what is left after a sale, and
\* leaves out a ticker the user bought and sold whole
C29_Witness ==
    /\ last.op = "get_user_portfolio"
    /\ \E tk \in BotTickers :
         /\ last.portfolio = {[ticker |-> tk, total_quantity |-> 1]}
         /\ TotalSold(last.user, tk) = 1
    /\ \E tk \in BotTickers :
         /\ TotalPurchased(last.user, tk) > 0
         /\ TotalSold(last.user, tk) = TotalPurchased(last.user, tk)

\* C30: no overselling.  In every state reached by handlers run one at a
\* time, for every user and ticker the total sold is at most the total
\* purchased, so get_available_quantity is not negative; and a sale row is
\* written only with a quantity that is at most the quantity available
\* when it is written.
C30_NoOverselling ==
    /\ \A u \in BotUsers, tk \in BotTickers :
         /\ TotalSold(u, tk) <= TotalPurchased(u, tk)
         /\ get_available_quantity(purchases, sales, u, tk) >= 0
         /\ get_available_quantity(purchases, sales, u, tk)
               = TotalPurchased(u, tk) - TotalSold(u, tk)
    /\ last.op = "add_sale" =>
         /\ last.quantity > 0
         /\ last.quantity <= last.available
         /\ last.available
               = TotalPurchased(last.user, last.ticker)
                   - TotalSold(last.user, last.ticker) + last.quantity

\* a user sold all that was available, while another user holds the same
\* ticker
C30_Witness ==
    /\ last.op = "add_sale"
    /\ last.quantity = last.available
    /\ last.quantity = MaxQuantity
    /\ \E u \in BotUsers \ {last.user} :
         TotalPurchased(u, last.ticker) > 0

\* C37: index snapshots are marked only after a successful store.  Every
\* systime in index_cache has a row in index_values written by this
\* process; a step whose insert failed leaves index_cache and index_values
\* as they were; index_cache grows only by the systime of the row the same
\* step stored; and a fetched snapshot whose systime is not in index_cache
\* (a failed one of an earlier cycle included) is attempted, not skipped.
C37_MarkAfterStore ==
    /\ [](index_cache \subseteq BagToSet(index_values))
    /\ [][(pc = "index" /\ index_outcome' = "StoreError")
             => /\ index_cache' = index_cache
                /\ index_values' = index_values]_vars
    /\ [][(pc = "index" /\ index_cache' # index_cache)
             => /\ index_outcome' = "ok"
                /\ index_cache' = index_cache \cup {snapshot'.systime}
                /\ index_values' =
                     index_values (+) SetToBag({snapshot'.systime})]_vars
    /\ [][(pc = "index" /\ snapshot'.fetched /\ snapshot'.systime # ""
           /\ snapshot'.systime \notin index_cache)
             => (index_outcome' = "ok" \/ index_outcome' = "StoreError")]_vars

\* in a later cycle the insert of a snapshot failed and its systime is not
\* marked
C37_Witness ==
    /\ pc = "sleeping"
    /\ cycles = MaxCycles
    /\ snapshot.fetched
    /\ snapshot.systime # ""
    /\ index_outcome = "StoreError"
    /\ snapshot.systime \notin index_cache

\* the close of today's latest candle of the ticker, when the store gives
\* one
StoredPrice(tk) ==
    IF ~candles_today[tk].raises /\ candles_today[tk].rows # << >>
    THEN candles_today[tk].rows[1]
    ELSE null
\* the price of the live source, when it gives one
LivePrice(tk) == get_current_price_from_moex(quotes[tk]).price
Requested == {upper(api.tickers[i]) : i \in 1..Len(api.tickers)}

\* C38: stored price first, live price as fallback.  A request to
\* get_price or get_prices_batch is answered with status 200 whatever the
\* two sources do; the response has exactly one entry for each requested
\* ticker, keyed by the upper-cased ticker; the entry holds the stored
\* price when the store gives one and else what the live source gives,
\* null when it gives none; and the live source is asked for exactly the
\* tickers the store gave no price for.
C38_StoredFirst ==
    api.op # "none" =>
       /\ api.response.status = 200
       /\ {e.key : e \in api.response.prices} = Requested
       /\ Cardinality(api.response.prices) = Cardinality(Requested)
       /\ \A e \in api.response.prices :
            e.price = IF StoredPrice(e.key) # null
                      THEN StoredPrice(e.key)
                      ELSE LivePrice(e.key)
       /\ {api.response.asked[i] : i \in 1..Len(api.response.asked)}
             = {tk \in Requested : StoredPrice(tk) = null}

\* a batch for two tickers, the first typed in lower case and stored while
\* the live source has another price for it, the second with both sources
\* failing
C38_Witness ==
    /\ api.op = "get_prices_batch"
    /\ Len(api.tickers) = 2
    /\ api.tickers[1] = "sber"
    /\ StoredPrice("SBER") = Some(1)
    /\ LivePrice("SBER") = Some(2)
    /\ candles_today["GAZP"].raises
    /\ quotes["GAZP"].raises
    /\ api.response.prices = {[key |-> "SBER", price |-> Some(1)],
                              [key |-> "GAZP", price |-> null]}
    /\ api.response.asked = << "GAZP" >>

\* rows of users with the telegram id
RowsOfId(id) ==
    BagCardinality([r \in {x \in BagToSet(users) : x.telegram_id = id} |->
                      CopiesIn(r, users)])
\* call a ends in this step
Ends(a) == signup.call[a].pc # "done" /\ signup'.call[a].pc = "done"

\* C36: one user per telegram id.  However the registration attempts
\* interleave, users holds at most one row for each telegram id; every
\* step keeps the rows that exist; an attempt that ends for a sender that
\* has a row ends as "already registered" or with the ValueError of
\* create_user and leaves users as it was; the attempt that adds a row
\* adds one row, for a sender that had none; and a contact of another
\* user is rejected without a row for anyone.
C36_OneUserPerId ==
    /\ [](\A id \in TelegramIds : RowsOfId(id) <= 1)
    /\ [][users \sqsubseteq users']_vars
    /\ [][\A a \in Attempts :
            (Ends(a) /\ RowsOfId(signup.call[a].sender) > 0)
              => /\ users' = users
                 /\ signup'.call[a].result \in
                       {"already", "ValueError", "Exception"}]_vars
    /\ [][\A a \in Attempts :
            (Ends(a) /\ signup'.call[a].result = "registered")
              => /\ RowsOfId(signup.call[a].sender) = 0
                 /\ users' = users (+)
                      SetToBag({UserRow(signup.call[a].sender,
                                        with_plus(signup.call[a].phone))})]_vars
    /\ [][\A a \in Attempts :
            (Ends(a) /\ signup'.call[a].contact # signup'.call[a].sender)
              => /\ signup'.call[a].result = "rejected"
                 /\ users' = users]_vars
    /\ [](\A a \in Attempts :
            signup.call[a].result \in {"already", "ValueError"}
              => RowsOfId(signup.call[a].sender) = 1)

\* two attempts of one sender interleaved: both passed the check, the
\* first created the row, the second got the ValueError, and the row keeps
\* the phone of the first
C36_Witness ==
    /\ signup.call[1].sender = signup.call[2].sender
    /\ signup.call[1].result = "registered"
    /\ signup.call[2].result = "ValueError"
    /\ signup.call[1].phone = "7900"
    /\ signup.call[2].phone = "+7901"
    /\ users = SetToBag({UserRow(signup.call[1].sender, "+7900")})

\* C31: no overselling under interleaving.  With the date callbacks of a
\* user processed concurrently, the sales recorded for each user and
\* ticker sum to at most the quantity purchased.
C31_NoOversellingInterleaved ==
    \A u \in BotUsers, tk \in BotTickers :
       SumOver({r \in BagToSet(sales) : r.user_id = u /\ r.ticker = tk},
               sales)
         <= SumOver({r \in BagToSet(purchases) :
                        r.user_id = u /\ r.ticker = tk}, purchases)

\* the handlers that take the input of a wizard step
StepHandlers ==
    {"process_ticker", "process_price", "process_quantity",
     "process_calendar", "process_date_text", "process_sell_ticker",
     "process_sell_price", "process_sell_quantity", "process_sell_calendar",
     "process_sell_date_text"}
\* the state after a wizard state
NextState(state) ==
    CASE state = "add.waiting_ticker" -> "add.waiting_price"
      [] state = "add.waiting_price" -> "add.waiting_quantity"
      [] state = "add.waiting_quantity" -> "add.waiting_date"
      [] state = "sell.waiting_ticker" -> "sell.waiting_price"
      [] state = "sell.waiting_price" -> "sell.waiting_quantity"
      [] state = "sell.waiting_quantity" -> "sell.waiting_date"
      [] OTHER -> "none"
\* what the user of the chat holds of a ticker
Held(tk) == TotalPurchased(Me, tk) - TotalSold(Me, tk)
\* the texts that are numbers, and whole numbers, above zero
PositiveNumbers == {"1", "2"}
\* a text that is invalid for the wizard state
InvalidInput(state, text) ==
    CASE state \in {"add.waiting_ticker", "sell.waiting_ticker"} ->
            \/ text = " "
            \/ text = LongText
            \/ (state = "sell.waiting_ticker" /\ Held(strip_upper(text)) <= 0)
      [] state \in {"add.waiting_price", "sell.waiting_price"} ->
            text \notin PositiveNumbers
      [] state = "add.waiting_quantity" -> text \notin PositiveNumbers
      [] state = "sell.waiting_quantity" ->
            \/ text \notin PositiveNumbers
            \/ (text = "1" /\ Held(chat.data.ticker) < 1)
            \/ (text = "2" /\ Held(chat.data.ticker) < 2)
      [] OTHER -> FALSE

\* C32: wizard step order.  A handler of a wizard step that changes the
\* state moves it to the next state of the same wizard (after waiting_date:
\* out of the wizard); and a text that is invalid for the state it arrives
\* in (a blank or over-long ticker, a price that is not a number above
\* zero, a quantity that is not a whole number above zero, a sell ticker
\* that is not held, a sell quantity above what is held) leaves the state
\* and the data as they were and writes no row.
C32_StepOrder ==
    [][/\ (update'.handler \in StepHandlers /\ chat'.state # chat.state)
            => chat'.state = NextState(chat.state)
       /\ (update'.handler \in StepHandlers /\ update'.event.kind = "text"
           /\ InvalidInput(chat.state, update'.event.text))
            => /\ chat' = chat
               /\ update'.wrote = NoWrite
               /\ purchases' = purchases
               /\ sales' = sales]_vars

\* a ticker as process_ticker lets it through: the upper-cased form of a
\* text, not empty and of at most 20 characters
ValidatedTicker(tk) ==
    /\ tk # ""
    /\ ~len_over_20(tk)
    /\ \E text \in ChatTexts : tk = strip_upper(text)
\* a price above zero
ValidatedPrice(p) == Len(p) = 1 /\ ~p[1].nan /\ p[1].value > 0
\* a whole quantity above zero
ValidatedQuantity(q) == Len(q) = 1 /\ q[1] \in Nat \ {0}

\* C33: purchases carry only validated values of the current wizard run.
\* Whenever an update writes a purchase, it is the date click of the add
\* wizard (process_calendar in add.waiting_date), the user is registered
\* then, the ticker is not empty, at most 20 characters and upper-cased,
\* the price is above zero, the quantity is a whole number above zero, and
\* all three are the values entered since the add wizard was last started.
C33_ValidatedPurchases ==
    [][(purchases' # purchases \/ update'.wrote.table = "purchases")
          => /\ update'.handler = "process_calendar"
             /\ chat.state = "add.waiting_date"
             /\ Registered
             /\ update'.wrote.table = "purchases"
             /\ ValidatedTicker(update'.wrote.ticker)
             /\ ValidatedPrice(update'.wrote.price)
             /\ ValidatedQuantity(update'.wrote.quantity)
             /\ update.typed.wizard = "add"
             /\ update'.wrote.ticker = update.typed.ticker
             /\ update'.wrote.price = update.typed.price
             /\ update'.wrote.quantity = update.typed.quantity]_vars

\* the wizard states that wait for a text
WizardStates == AddStates \cup SellStates
\* the handler of a menu button
MenuHandler(text) ==
    CASE text = "Portfolio" -> "show_portfolio"
      [] text = "Add Securities" -> "start_add_position"
      [] text = "Sell Securities" -> "start_sell_position"
      [] text = "Main Menu" -> "back_to_main_menu"
      [] text = "Cancel" -> "cancel_action"

\* C34: menu commands take priority over wizard input.  A text of a menu
\* button that arrives in a wizard state is handled by the handler of that
\* button, so it is never taken as the input of the step.
C34_MenuFirst ==
    [][(/\ chat.state \in WizardStates
        /\ update'.event.kind = "text"
        /\ update'.event.text \in MenuTexts)
          => update'.handler = MenuHandler(update'.event.text)]_vars

\* the states of the three wizards
ConversationStates == {"waiting_phone"} \cup WizardStates
\* the texts that cancel in every state
CancelTexts == {"Cancel", "Main Menu", "/start"}
\* the conversation after a cancelling text
Cancelled(text) ==
    IF text = "/start" /\ ~Registered
    THEN [state |-> "waiting_phone", data |-> NoData]
    ELSE NoChat

\* C35: cancel always leaves the wizard.  In every state of the
\* registration, add and sell wizards a text 'Cancel', 'Main Menu' or
\* '/start' (and, at a date step, a text that is "cancel" in any case) ends
\* with the state and the data cleared, for '/start' of an unregistered
\* user with the state waiting_phone and no data, and leaves users,
\* purchases and sales as they were.
C35_CancelLeaves ==
    [][(/\ chat.state \in ConversationStates
        /\ update'.event.kind = "text"
        /\ \/ update'.event.text \in CancelTexts
           \/ /\ chat.state \in {"add.waiting_date", "sell.waiting_date"}
              /\ is_cancel(update'.event.text))
          => /\ chat' = Cancelled(update'.event.text)
             /\ users' = users
             /\ purchases' = purchases
             /\ sales' = sales]_vars
\* a 'Cancel' that arrived at the date step of a wizard, with three values
\* stored, has left nothing
C35_Witness ==
    /\ update.event.text = "Cancel"
    /\ update.handler = "cancel_action"
    /\ update.from \in {"add.waiting_date", "sell.waiting_date"}
    /\ chat = NoChat

=============================================================================
